---- MODULE Spec2Model ----
(***************************************************************************)
(* FrameFlicker Studios: the booking ledger of the three server variants   *)
(* (SQLite, Postgres, Google Sheets).                                      *)
(*                                                                         *)
(* Prices are whole currency units (LKR), as the deposit rule is stated.   *)
(* The money columns of a booking and the amount of a payment are held in  *)
(* half cents (Unit of them to the LKR), so that an amount finer than the  *)
(* DECIMAL(10, 2) columns of the Postgres schema can be posted.  The REAL  *)
(* columns of SQLite and the parseFloat arithmetic of sheets.js are taken  *)
(* as exact on these values: binary floating-point error is not modelled.  *)
(* A deposit percentage is held in hundredths: 50 stands for the           *)
(* source's 0.5 and 25 for 0.25.  A request field that is absent or falsy  *)
(* in the JSON body is 0 (numbers, ids) or "" (strings); `amount` also     *)
(* carries hasAmount, because the SQLite handler tells undefined from 0.   *)
(* The package handlers tell an absent field from a falsy one: hasName     *)
(* says that `name` is a string of the body ("" included), hasPrice that   *)
(* `price` is a number of the body, nullPrice that the body has            *)
(* price: null.                                                            *)
(* A looked-up row is a sequence of length 0 (null) or 1.                  *)
(* The clients and team tables take no part in the ledger and are left out;*)
(* a client_id in a request is taken to reference an existing client.      *)
(***************************************************************************)
EXTENDS Integers, Sequences, FiniteSets, TLC

VARIABLES backend, packages, projects, payments, serial, procs, calc

vars == <<backend, packages, projects, payments, serial, procs, calc>>

(***************************************************************************)
(* Bounds of the model.                                                    *)
(***************************************************************************)
MaxPrice == 20001
MaxProjects == 1
MaxPayments == 2
MaxPackages == 1
MaxSerial == 3
MaxServed == 2
MaxRequests == 3
MaxRevisions == 3

PriceInputs == {0, 20000}
AmountInputs == {-2500, 0, 5000}
MethodInputs == {"", "Cash", "Crypto"}
IdInputs == 0..(MaxProjects + 1)

Backends == {"sqlite", "pg", "sheets"}

(***************************************************************************)
(* Generic helpers.                                                        *)
(***************************************************************************)
Max(S) == CHOOSE x \in S : \A y \in S : y <= x

\* Position (1-based) of the first row with this id, 0 when there is none.
IndexOfId(rows, id) ==
  IF \E i \in 1..Len(rows) : rows[i].id = id
  THEN CHOOSE i \in 1..Len(rows) :
         rows[i].id = id /\ \A j \in 1..(i - 1) : rows[j].id # id
  ELSE 0

\* SELECT * FROM t WHERE id = ?  (null or the row)
RowById(rows, id) ==
  IF IndexOfId(rows, id) = 0 THEN <<>> ELSE <<rows[IndexOfId(rows, id)]>>

\* DELETE FROM t WHERE <pred>
DeleteWhere(rows, Pred(_)) == SelectSeq(rows, LAMBDA r : ~Pred(r))

RemoveAt(rows, k) ==
  [i \in 1..(Len(rows) - 1) |-> IF i < k THEN rows[i] ELSE rows[i + 1]]

\* JavaScript Math.round of the rational num/den (den > 0): floor(x + 1/2).
MathRound(num, den) == (2 * num + den) \div (2 * den)

\* Half cents to the cent (the scale of DECIMAL(10, 2)) and to the LKR.
Cent == 2

Unit == 100 * Cent

Money(lkr) == lkr * Unit

\* A value stored in a DECIMAL(10, 2) column: numeric rounding to the cent,
\* halves away from zero.
NumericRound(x) ==
  IF x >= 0 THEN ((2 * x + Cent) \div (2 * Cent)) * Cent
  ELSE 0 - ((2 * (0 - x) + Cent) \div (2 * Cent)) * Cent

(***************************************************************************)
(* The deposit calculator.                                                 *)
(***************************************************************************)
DepositThreshold == 15000

calcDepositStrict(price) ==
  LET percent == IF price < DepositThreshold THEN 50 ELSE 25
      depositAmount == MathRound(price * percent, 100)
  IN  [percent |-> percent, depositAmount |-> depositAmount,
       balanceAmount |-> price - depositAmount]

calcDepositTruncating(price) ==
  LET percent == IF price <= DepositThreshold THEN 50 ELSE 25
      depositAmount == (price * percent) \div 100
  IN  [percent |-> percent, depositAmount |-> depositAmount,
       balanceAmount |-> price - depositAmount]

calcDeposit(price) ==
  LET percent == IF price <= DepositThreshold THEN 50 ELSE 25
      depositAmount == MathRound(price * percent, 100)
      balanceAmount == price - depositAmount
  IN  [percent |-> percent, depositAmount |-> depositAmount,
       balanceAmount |-> balanceAmount]

\* The Postgres server's copy: Number(price) first, then the same rule.
calcDepositPg(price) ==
  LET p == price
      percent == IF p <= DepositThreshold THEN 50 ELSE 25
      depositAmount == MathRound(p * percent, 100)
      balanceAmount == p - depositAmount
  IN  [percent |-> percent, depositAmount |-> depositAmount,
       balanceAmount |-> balanceAmount]

(***************************************************************************)
(* Requests, rows and handler state.                                       *)
(***************************************************************************)
\* SQL NULL in a column of counts, and a count the body does not give.
NULL == -1

NoReq ==
  [id |-> 0, project_id |-> 0, amount |-> 0, hasAmount |-> FALSE, method |-> "",
   client_id |-> 0, package_id |-> 0, price |-> 0, hasPrice |-> FALSE,
   nullPrice |-> FALSE, hasName |-> FALSE,
   deposit_percent |-> 0, deposit_amount |-> 0, balance_amount |-> 0, name |-> "",
   amount_paid |-> 0, status |-> "", hasLedger |-> FALSE,
   revision_limit |-> NULL, revisions_used |-> NULL]

NoCalc == [price |-> 0, done |-> FALSE, percent |-> 0, depositAmount |-> 0,
           balanceAmount |-> 0]

Snapshot == [projects |-> projects, payments |-> payments]

IdleProc ==
  [pc |-> "idle", op |-> "none", req |-> NoReq, status |-> 0, pre |-> [projects |-> <<>>, payments |-> <<>>],
   newId |-> 0, payment |-> <<>>, project |-> <<>>, rowNumber |-> 0,
   updId |-> 0, updRow |-> 0, existing |-> <<>>, patch |-> <<>>, after |-> "",
   conn |-> FALSE, tx |-> FALSE, txInsert |-> <<>>, txDelete |-> {},
   txUpdate |-> <<>>, prev |-> <<>>, served |-> 0, limit |-> 0,
   revisionsUsed |-> 0, extraRevision |-> FALSE, pendingPayments |-> 0,
   failed |-> FALSE, detail |-> FALSE,
   acquired |-> 0, begun |-> 0, ended |-> 0, released |-> 0,
   openAtRelease |-> FALSE]

PaymentReqs ==
  {[NoReq EXCEPT !.project_id = pid, !.amount = Money(a), !.hasAmount = h, !.method = m] :
     pid \in IdInputs, a \in AmountInputs, h \in BOOLEAN, m \in MethodInputs}
  \ {r \in {[NoReq EXCEPT !.project_id = pid, !.amount = Money(a), !.method = m] :
              pid \in IdInputs, a \in AmountInputs, m \in MethodInputs} :
       r.amount # 0}

DeleteReqs == {[NoReq EXCEPT !.id = i] : i \in 1..MaxSerial}

PackageReqs ==
  {[NoReq EXCEPT !.name = n, !.hasName = (n # ""), !.price = pr, !.hasPrice = TRUE] :
     n \in {"", "Wedding"}, pr \in PriceInputs}

ProjectReqs ==
  {[NoReq EXCEPT !.client_id = c, !.package_id = k, !.price = pr, !.hasPrice = h] :
     c \in {0, 1}, k \in 0..MaxPackages, pr \in PriceInputs, h \in BOOLEAN}
  \ {r \in {[NoReq EXCEPT !.client_id = c, !.package_id = k, !.price = pr] :
              c \in {0, 1}, k \in 0..MaxPackages, pr \in PriceInputs} :
       r.price # 0}

\* prev, served and limit are bookkeeping about the worker, not about the
\* request: the payment its last request recorded, how many requests it has
\* answered, and how many it may answer (0: any number).
Carry(p, rec) ==
  [rec EXCEPT !.prev = procs[p].prev, !.served = procs[p].served,
              !.limit = procs[p].limit]

\* The handler's record once it has answered: what was asked, from which
\* store, and the HTTP status sent.
Answered(p, op, req, status) ==
  Carry(p, [IdleProc EXCEPT !.pc = "answered", !.op = op, !.req = req,
                            !.status = status, !.pre = Snapshot])

\* A handler that has been entered and suspends at its first await.
Entered(p, op, req, pc) ==
  Carry(p, [IdleProc EXCEPT !.pc = pc, !.op = op, !.req = req, !.pre = Snapshot])

CanStart(p) ==
  /\ procs[p].pc = "idle"
  /\ procs[p].limit = 0 \/ procs[p].served < procs[p].limit

\* What the next request may be compared with: the payment the request just
\* answered has recorded, and the store it was recorded in.
Remembered(pr) ==
  IF pr.pc = "answered" /\ pr.status \in {200, 201} /\ pr.op = "postPayment"
  THEN <<[id |-> pr.newId, pre |-> pr.pre]>>
  ELSE <<>>

\* The response has gone out; the handler's frame is gone.
Respond(p) ==
  /\ procs[p].pc = "answered"
  /\ procs' = [procs EXCEPT ![p] =
                 [IdleProc EXCEPT !.prev = Remembered(procs[p]),
                                  !.limit = procs[p].limit,
                                  !.served = IF procs[p].limit = 0 THEN 0
                                             ELSE procs[p].served + 1]]
  /\ UNCHANGED <<backend, packages, projects, payments, serial, calc>>

(***************************************************************************)
(* SQLite server (better-sqlite3: every handler runs to completion).       *)
(***************************************************************************)
validMethods == {"Cash", "Bank Transfer", "Card", "Other"}

\* POST /api/packages
SqCreatePackage(p, req) ==
  /\ backend = "sqlite" /\ CanStart(p)
  /\ IF req.name = "" \/ ~req.hasPrice
     THEN /\ procs' = [procs EXCEPT ![p] = Answered(p, "createPackage", req, 400)]
          /\ UNCHANGED <<packages, serial>>
     ELSE /\ Len(packages) < MaxPackages /\ serial.packages <= MaxSerial
          /\ packages' = Append(packages, [id |-> serial.packages, price |-> req.price])
          /\ serial' = [serial EXCEPT !.packages = @ + 1]
          /\ procs' = [procs EXCEPT ![p] = Answered(p, "createPackage", req, 200)]
  /\ UNCHANGED <<backend, projects, payments, calc>>

\* INSERT INTO projects ... with the table's defaults
SqNewProject(id, req, finalPrice, d) ==
  [id |-> id, package_id |-> req.package_id, status |-> "New",
   price |-> Money(finalPrice), deposit_percent |-> d.percent,
   deposit_amount |-> Money(d.depositAmount),
   balance_amount |-> Money(d.balanceAmount),
   amount_paid |-> 0, revision_limit |-> 2, revisions_used |-> 0]

\* POST /api/projects
SqCreateProject(p, req) ==
  /\ backend = "sqlite" /\ CanStart(p)
  /\ LET pkg == RowById(packages, req.package_id)
         finalPrice == IF req.hasPrice THEN req.price
                       ELSE IF pkg # <<>> THEN pkg[1].price ELSE 0
         d == calcDeposit(finalPrice)
     IN  IF req.client_id = 0 \/ req.package_id = 0
         THEN /\ procs' = [procs EXCEPT ![p] = Answered(p, "createProject", req, 400)]
              /\ UNCHANGED <<projects, serial>>
         ELSE IF ~req.hasPrice /\ pkg = <<>>
         THEN /\ procs' = [procs EXCEPT ![p] = Answered(p, "createProject", req, 400)]
              /\ UNCHANGED <<projects, serial>>
         ELSE /\ Len(projects) < MaxProjects /\ serial.projects <= MaxSerial
              /\ projects' = Append(projects,
                                    SqNewProject(serial.projects, req, finalPrice, d))
              /\ serial' = [serial EXCEPT !.projects = @ + 1]
              /\ procs' = [procs EXCEPT ![p] =
                             [Answered(p, "createProject", req, 200) EXCEPT
                                !.newId = serial.projects]]
  /\ UNCHANGED <<backend, packages, payments, calc>>

\* UPDATE projects SET amount_paid = amount_paid + ? WHERE id = ?
SqAddPaid(rows, amount, projectId) ==
  [i \in 1..Len(rows) |->
     IF rows[i].id = projectId
     THEN [rows[i] EXCEPT !.amount_paid = @ + amount]
     ELSE rows[i]]

\* POST /api/payments
SqPostPayment(p, req) ==
  /\ backend = "sqlite" /\ CanStart(p)
  /\ IF req.project_id = 0 \/ ~req.hasAmount \/ req.method = ""
     THEN /\ procs' = [procs EXCEPT ![p] = Answered(p, "postPayment", req, 400)]
          /\ UNCHANGED <<projects, payments, serial>>
     ELSE IF req.method \notin validMethods
     THEN /\ procs' = [procs EXCEPT ![p] = Answered(p, "postPayment", req, 400)]
          /\ UNCHANGED <<projects, payments, serial>>
     ELSE /\ Len(payments) < MaxPayments /\ serial.payments <= MaxSerial
          /\ payments' = Append(payments,
                                [id |-> serial.payments, project_id |-> req.project_id,
                                 amount |-> req.amount, method |-> req.method])
          /\ serial' = [serial EXCEPT !.payments = @ + 1]
          /\ projects' = SqAddPaid(projects, req.amount, req.project_id)
          /\ procs' = [procs EXCEPT ![p] =
                         [Answered(p, "postPayment", req, 200) EXCEPT
                            !.newId = serial.payments]]
  /\ UNCHANGED <<backend, packages, calc>>

\* DELETE /api/payments/:id
SqDeletePayment(p, req) ==
  /\ backend = "sqlite" /\ CanStart(p)
  /\ LET payment == RowById(payments, req.id)
     IN  /\ IF payment # <<>>
            THEN /\ projects' = SqAddPaid(projects, 0 - payment[1].amount,
                                          payment[1].project_id)
                 /\ payments' = DeleteWhere(payments, LAMBDA r : r.id = req.id)
            ELSE UNCHANGED <<projects, payments>>
         /\ procs' = [procs EXCEPT ![p] =
                        [Answered(p, "deletePayment", req, 200) EXCEPT
                           !.payment = payment]]
  /\ UNCHANGED <<backend, packages, serial, calc>>

validStatuses ==
  {"New", "Confirmed", "Deposit Paid", "Scheduled", "Shooting", "Editing",
   "Review", "Delivered", "Completed", "Cancelled"}

\* UPDATE t SET ... WHERE id = ?
UpdateWhereId(rows, id, Set(_)) ==
  [i \in 1..Len(rows) |-> IF rows[i].id = id THEN Set(rows[i]) ELSE rows[i]]

\* PATCH /api/projects/:id/status
SqPatchStatus(p, req) ==
  /\ backend = "sqlite" /\ CanStart(p)
  /\ IF req.status \notin validStatuses
     THEN /\ procs' = [procs EXCEPT ![p] = Answered(p, "patchStatus", req, 400)]
          /\ UNCHANGED projects
     ELSE /\ projects' = UpdateWhereId(projects, req.id,
                                       LAMBDA r : [r EXCEPT !.status = req.status])
          /\ procs' = [procs EXCEPT ![p] = Answered(p, "patchStatus", req, 200)]
  /\ UNCHANGED <<backend, packages, payments, serial, calc>>

\* PUT /api/projects/:id: event and free-text columns only, none of which
\* the rows of this model carry.
SqPutProject(p, req) ==
  /\ backend = "sqlite" /\ CanStart(p)
  /\ procs' = [procs EXCEPT ![p] = Answered(p, "putProject", req, 200)]
  /\ UNCHANGED <<backend, packages, projects, payments, serial, calc>>

\* DELETE /api/projects/:id
SqDeleteProject(p, req) ==
  /\ backend = "sqlite" /\ CanStart(p)
  /\ payments' = DeleteWhere(payments, LAMBDA r : r.project_id = req.id)
  /\ projects' = DeleteWhere(projects, LAMBDA r : r.id = req.id)
  /\ procs' = [procs EXCEPT ![p] = Answered(p, "deleteProject", req, 200)]
  /\ UNCHANGED <<backend, packages, serial, calc>>

\* PUT /api/packages/:id.  name and price are NOT NULL; an undefined name
\* and Number(undefined) = NaN are bound as NULL, while '' and
\* Number(null) = 0 are values.  The UPDATE of an existing row with a NULL
\* throws, and express answers the exception of a synchronous handler with
\* 500 from its default error handler, whose body carries the stack unless
\* NODE_ENV is production.
SqPutPackage(p, req) ==
  /\ backend = "sqlite" /\ CanStart(p)
  /\ IF /\ RowById(packages, req.id) # <<>>
        /\ ~req.hasName \/ (~req.hasPrice /\ ~req.nullPrice)
     THEN /\ \E stack \in BOOLEAN :
               procs' = [procs EXCEPT ![p] =
                           [Answered(p, "putPackage", req, 500) EXCEPT
                              !.failed = TRUE, !.detail = stack]]
          /\ UNCHANGED packages
     ELSE /\ packages' = UpdateWhereId(packages, req.id,
                                       LAMBDA r : [r EXCEPT !.price = req.price])
          /\ procs' = [procs EXCEPT ![p] = Answered(p, "putPackage", req, 200)]
  /\ UNCHANGED <<backend, projects, payments, serial, calc>>

\* DELETE /api/packages/:id
SqDeletePackage(p, req) ==
  /\ backend = "sqlite" /\ CanStart(p)
  /\ packages' = DeleteWhere(packages, LAMBDA r : r.id = req.id)
  /\ procs' = [procs EXCEPT ![p] = Answered(p, "deletePackage", req, 200)]
  /\ UNCHANGED <<backend, projects, payments, serial, calc>>

\* A revision counted as extra from the limit itself on.
SqRevisionIsExtraFromLimit(newCount, revision_limit) == newCount >= revision_limit

\* const isExtra = newCount > project.revision_limit
SqRevisionIsExtra(newCount, revision_limit) == newCount > revision_limit

\* POST /api/projects/:id/revision
SqRecordRevision(p, req) ==
  /\ backend = "sqlite" /\ CanStart(p)
  /\ LET project == RowById(projects, req.id)
     IN  IF project = <<>>
         THEN /\ procs' = [procs EXCEPT ![p] = Answered(p, "recordRevision", req, 404)]
              /\ UNCHANGED projects
         ELSE LET newCount == project[1].revisions_used + 1
                  isExtra == SqRevisionIsExtra(newCount, project[1].revision_limit)
              IN  /\ newCount <= MaxRevisions
                  /\ projects' = UpdateWhereId(projects, req.id,
                                     LAMBDA r : [r EXCEPT !.revisions_used = newCount])
                  /\ procs' = [procs EXCEPT ![p] =
                                 [Answered(p, "recordRevision", req, 200) EXCEPT
                                    !.revisionsUsed = newCount,
                                    !.extraRevision = isExtra]]
  /\ UNCHANGED <<backend, packages, payments, serial, calc>>

\* POST /api/projects/:id/reset-revisions
SqResetRevisions(p, req) ==
  /\ backend = "sqlite" /\ CanStart(p)
  /\ projects' = UpdateWhereId(projects, req.id,
                               LAMBDA r : [r EXCEPT !.revisions_used = 0])
  /\ procs' = [procs EXCEPT ![p] = Answered(p, "resetRevisions", req, 200)]
  /\ UNCHANGED <<backend, packages, payments, serial, calc>>

\* SELECT SUM(balance_amount - amount_paid) FROM projects WHERE status is
\* none of Excluded; SUM over no rows is NULL, and NULL || 0 is 0.
RECURSIVE SumPending(_, _)
SumPending(rows, Excluded) ==
  IF rows = <<>> THEN 0
  ELSE (IF Head(rows).status \in Excluded THEN 0
        ELSE Head(rows).balance_amount - Head(rows).amount_paid)
       + SumPending(Tail(rows), Excluded)

\* GET /api/dashboard
SqDashboard(p) ==
  /\ backend = "sqlite" /\ CanStart(p)
  /\ procs' = [procs EXCEPT ![p] =
                 [Answered(p, "dashboard", NoReq, 200) EXCEPT
                    !.pendingPayments = SumPending(projects, {"Cancelled", "Completed"})]]
  /\ UNCHANGED <<backend, packages, projects, payments, serial, calc>>

(***************************************************************************)
(* Google Sheets server.  sheets.js reaches the spreadsheet only through   *)
(* awaited API calls; a handler is one step per call, and the code between *)
(* two calls runs with the step that ends at the second call.              *)
(* The projects sheet has no deposit_percent and no revision columns: the  *)
(* rows carry 0 there.                                                     *)
(***************************************************************************)
getById(rows, id) == RowById(rows, id)

getNextId(rows) ==
  IF Len(rows) = 0 THEN 1
  ELSE LET maxId == Max({rows[i].id : i \in 1..Len(rows)}) IN maxId + 1

\* index + 2 for 0-based index: data position k is sheet row k + 1.
findRowNumber(rows, id) ==
  LET index == IndexOfId(rows, id) IN IF index = 0 THEN -1 ELSE index + 1

appendRow(rows, row) == Append(rows, row)

BlankProject ==
  [id |-> 0, package_id |-> 0, status |-> "", price |-> 0, deposit_percent |-> 0,
   deposit_amount |-> 0, balance_amount |-> 0, amount_paid |-> 0,
   revision_limit |-> 0, revisions_used |-> 0]

\* values.update on A{rowNumber}:Z{rowNumber}; writing below the data leaves
\* blank rows in between.
updateRow(rows, rowNumber, row) ==
  LET k == rowNumber - 1
  IN  IF k \in 1..Len(rows) THEN [rows EXCEPT ![k] = row]
      ELSE IF k > Len(rows)
      THEN [i \in 1..k |-> IF i <= Len(rows) THEN rows[i]
                           ELSE IF i = k THEN row ELSE BlankProject]
      ELSE rows

\* deleteDimension ROWS [rowNumber - 1, rowNumber)
deleteRow(rows, rowNumber) ==
  LET k == rowNumber - 1
  IN  IF k \in 1..Len(rows) THEN RemoveAt(rows, k) ELSE rows

\* The row updateProject writes: project.x ?? existing.x
updateProjectRow(id, patch, existing) ==
  [f \in DOMAIN existing |->
     IF f = "id" THEN id
     ELSE IF f \in DOMAIN patch THEN patch[f] ELSE existing[f]]

\* The row createProject appends: project.status || 'New',
\* project.amount_paid || 0, and likewise for the other columns.
ShNewProject(id, req) ==
  [id |-> id, package_id |-> req.package_id,
   status |-> IF req.status = "" THEN "New" ELSE req.status,
   price |-> Money(req.price), deposit_percent |-> 0,
   deposit_amount |-> Money(req.deposit_amount),
   balance_amount |-> Money(req.balance_amount),
   amount_paid |-> Money(req.amount_paid),
   revision_limit |-> 0, revisions_used |-> 0]

\* The bodies POST /api/projects is given: the caller has split the price
\* with the deposit calculator.
SheetsProjectReqs ==
  {[NoReq EXCEPT !.client_id = 1, !.package_id = 1, !.price = pr, !.hasPrice = TRUE,
                 !.deposit_amount = calcDeposit(pr).depositAmount,
                 !.balance_amount = calcDeposit(pr).balanceAmount] :
     pr \in PriceInputs}

\* Where a handler goes on once updateProject has returned.
ShContinue(pr) ==
  IF pr.after = "created"
  THEN [pr EXCEPT !.pc = "answered", !.status = 201]
  ELSE IF pr.after = "put"
  THEN [pr EXCEPT !.pc = "answered", !.status = IF pr.updRow = -1 THEN 404 ELSE 200]
  ELSE [pr EXCEPT !.pc = pr.after]

\* POST /api/projects -> createProject
ShStartCreateProject(p, req) ==
  /\ backend = "sheets" /\ CanStart(p)
  /\ Len(projects) < MaxProjects
  /\ procs' = [procs EXCEPT ![p] = Entered(p, "createProject", req, "sp_nextid")]
  /\ UNCHANGED <<backend, packages, projects, payments, serial, calc>>

ShCreateProjectNextId(p) ==
  /\ procs[p].pc = "sp_nextid"
  /\ procs' = [procs EXCEPT ![p].newId = getNextId(projects), ![p].pc = "sp_append"]
  /\ UNCHANGED <<backend, packages, projects, payments, serial, calc>>

ShCreateProjectAppend(p) ==
  /\ procs[p].pc = "sp_append"
  /\ projects' = appendRow(projects, ShNewProject(procs[p].newId, procs[p].req))
  /\ procs' = [procs EXCEPT ![p].pc = "answered", ![p].status = 201]
  /\ UNCHANGED <<backend, packages, payments, serial, calc>>

\* POST /api/payments -> createPayment
ShStartPostPayment(p, req) ==
  /\ backend = "sheets" /\ CanStart(p)
  /\ IF req.project_id = 0 \/ ~req.hasAmount \/ req.amount = 0 \/ req.method = ""
     THEN procs' = [procs EXCEPT ![p] = Answered(p, "postPayment", req, 400)]
     ELSE /\ Len(payments) < MaxPayments
          /\ procs' = [procs EXCEPT ![p] = Entered(p, "postPayment", req, "cp_nextid")]
  /\ UNCHANGED <<backend, packages, projects, payments, serial, calc>>

ShPostNextId(p) ==
  /\ procs[p].pc = "cp_nextid"
  /\ procs' = [procs EXCEPT ![p].newId = getNextId(payments), ![p].pc = "cp_append"]
  /\ UNCHANGED <<backend, packages, projects, payments, serial, calc>>

ShPostAppend(p) ==
  /\ procs[p].pc = "cp_append"
  /\ LET req == procs[p].req
     IN  payments' = appendRow(payments,
                               [id |-> procs[p].newId, project_id |-> req.project_id,
                                amount |-> req.amount, method |-> req.method])
  /\ procs' = [procs EXCEPT ![p].pc = "cp_getproject"]
  /\ UNCHANGED <<backend, packages, projects, serial, calc>>

ShPostGetProject(p) ==
  /\ procs[p].pc = "cp_getproject"
  /\ LET pr == procs[p]
         project == getById(projects, pr.req.project_id)
     IN  IF project # <<>>
         THEN LET newAmountPaid == project[1].amount_paid + pr.req.amount
                  newBalance == project[1].balance_amount - pr.req.amount
              IN  procs' = [procs EXCEPT ![p] =
                              [pr EXCEPT !.project = project,
                                         !.updId = pr.req.project_id,
                                         !.patch = [amount_paid |-> newAmountPaid,
                                                    balance_amount |-> newBalance],
                                         !.after = "created",
                                         !.pc = "up_find"]]
         ELSE procs' = [procs EXCEPT ![p] = [pr EXCEPT !.pc = "answered", !.status = 201]]
  /\ UNCHANGED <<backend, packages, projects, payments, serial, calc>>

\* updateProject(id, project): findRowNumber, getById, updateRow
ShUpdateFind(p) ==
  /\ procs[p].pc = "up_find"
  /\ LET pr == procs[p]
         rowNumber == findRowNumber(projects, pr.updId)
     IN  IF rowNumber = -1
         THEN procs' = [procs EXCEPT ![p] = ShContinue([pr EXCEPT !.updRow = -1])]
         ELSE procs' = [procs EXCEPT ![p] =
                          [pr EXCEPT !.updRow = rowNumber, !.pc = "up_existing"]]
  /\ UNCHANGED <<backend, packages, projects, payments, serial, calc>>

ShUpdateExisting(p) ==
  /\ procs[p].pc = "up_existing"
  /\ LET pr == procs[p]
         existing == getById(projects, pr.updId)
     IN  IF existing = <<>>
         THEN \* existing.client_id throws; the route's catch answers 500
              procs' = [procs EXCEPT ![p] = [pr EXCEPT !.pc = "answered", !.status = 500]]
         ELSE procs' = [procs EXCEPT ![p] =
                          [pr EXCEPT !.existing = existing, !.pc = "up_write"]]
  /\ UNCHANGED <<backend, packages, projects, payments, serial, calc>>

ShUpdateWrite(p) ==
  /\ procs[p].pc = "up_write"
  /\ LET pr == procs[p]
     IN  /\ projects' = updateRow(projects, pr.updRow,
                                  updateProjectRow(pr.updId, pr.patch, pr.existing[1]))
         /\ procs' = [procs EXCEPT ![p] = ShContinue(pr)]
  /\ UNCHANGED <<backend, packages, payments, serial, calc>>

\* DELETE /api/payments/:id -> deletePayment
ShStartDeletePayment(p, req) ==
  /\ backend = "sheets" /\ CanStart(p)
  /\ procs' = [procs EXCEPT ![p] = Entered(p, "deletePayment", req, "dp_getpayment")]
  /\ UNCHANGED <<backend, packages, projects, payments, serial, calc>>

ShDeleteGetPayment(p) ==
  /\ procs[p].pc = "dp_getpayment"
  /\ LET pr == procs[p]
         payment == getById(payments, pr.req.id)
     IN  IF payment = <<>>
         THEN procs' = [procs EXCEPT ![p] = [pr EXCEPT !.pc = "answered", !.status = 404]]
         ELSE procs' = [procs EXCEPT ![p] =
                          [pr EXCEPT !.payment = payment, !.pc = "dp_find"]]
  /\ UNCHANGED <<backend, packages, projects, payments, serial, calc>>

ShDeleteFind(p) ==
  /\ procs[p].pc = "dp_find"
  /\ LET pr == procs[p]
         rowNumber == findRowNumber(payments, pr.req.id)
     IN  IF rowNumber = -1
         THEN procs' = [procs EXCEPT ![p] = [pr EXCEPT !.pc = "answered", !.status = 404]]
         ELSE procs' = [procs EXCEPT ![p] =
                          [pr EXCEPT !.rowNumber = rowNumber,
                                     !.pc = IF pr.payment[1].project_id # 0
                                            THEN "dp_getproject" ELSE "dp_sheetmeta"]]
  /\ UNCHANGED <<backend, packages, projects, payments, serial, calc>>

ShDeleteGetProject(p) ==
  /\ procs[p].pc = "dp_getproject"
  /\ LET pr == procs[p]
         payment == pr.payment[1]
         project == getById(projects, payment.project_id)
     IN  IF project # <<>>
         THEN LET newAmountPaid == project[1].amount_paid - payment.amount
                  newBalance == project[1].balance_amount + payment.amount
              IN  procs' = [procs EXCEPT ![p] =
                              [pr EXCEPT !.project = project,
                                         !.updId = payment.project_id,
                                         !.patch = [amount_paid |-> newAmountPaid,
                                                    balance_amount |-> newBalance],
                                         !.after = "dp_sheetmeta",
                                         !.pc = "up_find"]]
         ELSE procs' = [procs EXCEPT ![p] = [pr EXCEPT !.pc = "dp_sheetmeta"]]
  /\ UNCHANGED <<backend, packages, projects, payments, serial, calc>>

\* deleteRow: spreadsheets.get for the sheet id, then batchUpdate
ShDeleteSheetMeta(p) ==
  /\ procs[p].pc = "dp_sheetmeta"
  /\ procs' = [procs EXCEPT ![p].pc = "dp_deleterow"]
  /\ UNCHANGED <<backend, packages, projects, payments, serial, calc>>

ShDeleteRow(p) ==
  /\ procs[p].pc = "dp_deleterow"
  /\ payments' = deleteRow(payments, procs[p].rowNumber)
  /\ procs' = [procs EXCEPT ![p].pc = "answered", ![p].status = 200]
  /\ UNCHANGED <<backend, packages, projects, serial, calc>>

\* The fields a PUT /api/projects/:id body carries.
ShProjectPatch(req) ==
  IF req.hasLedger /\ req.package_id # 0
  THEN [package_id |-> req.package_id,
        status |-> req.status, price |-> Money(req.price),
        deposit_amount |-> Money(req.deposit_amount),
        balance_amount |-> Money(req.balance_amount),
        amount_paid |-> Money(req.amount_paid)]
  ELSE IF req.hasLedger
  THEN [status |-> req.status, price |-> Money(req.price),
        deposit_amount |-> Money(req.deposit_amount),
        balance_amount |-> Money(req.balance_amount),
        amount_paid |-> Money(req.amount_paid)]
  ELSE IF req.package_id # 0
  THEN [package_id |-> req.package_id]
  ELSE <<>>

\* PUT /api/projects/:id -> updateProject(req.params.id, req.body)
ShStartPutProject(p, req) ==
  /\ backend = "sheets" /\ CanStart(p)
  /\ procs' = [procs EXCEPT ![p] =
                 [Entered(p, "putProject", req, "up_find") EXCEPT
                    !.updId = req.id, !.patch = ShProjectPatch(req), !.after = "put"]]
  /\ UNCHANGED <<backend, packages, projects, payments, serial, calc>>

\* DELETE /api/projects/:id -> deleteProject
ShStartDeleteProject(p, req) ==
  /\ backend = "sheets" /\ CanStart(p)
  /\ procs' = [procs EXCEPT ![p] = Entered(p, "deleteProject", req, "dj_find")]
  /\ UNCHANGED <<backend, packages, projects, payments, serial, calc>>

ShDeleteProjectFind(p) ==
  /\ procs[p].pc = "dj_find"
  /\ LET pr == procs[p]
         rowNumber == findRowNumber(projects, pr.req.id)
     IN  IF rowNumber = -1
         THEN procs' = [procs EXCEPT ![p] = [pr EXCEPT !.pc = "answered", !.status = 404]]
         ELSE procs' = [procs EXCEPT ![p] =
                          [pr EXCEPT !.rowNumber = rowNumber, !.pc = "dj_sheetmeta"]]
  /\ UNCHANGED <<backend, packages, projects, payments, serial, calc>>

ShDeleteProjectSheetMeta(p) ==
  /\ procs[p].pc = "dj_sheetmeta"
  /\ procs' = [procs EXCEPT ![p].pc = "dj_deleterow"]
  /\ UNCHANGED <<backend, packages, projects, payments, serial, calc>>

ShDeleteProjectRow(p) ==
  /\ procs[p].pc = "dj_deleterow"
  /\ projects' = deleteRow(projects, procs[p].rowNumber)
  /\ procs' = [procs EXCEPT ![p].pc = "answered", ![p].status = 200]
  /\ UNCHANGED <<backend, packages, payments, serial, calc>>

\* PUT /api/packages/:id -> updatePackage
ShStartPutPackage(p, req) ==
  /\ backend = "sheets" /\ CanStart(p)
  /\ procs' = [procs EXCEPT ![p] = Entered(p, "putPackage", req, "ua_find")]
  /\ UNCHANGED <<backend, packages, projects, payments, serial, calc>>

ShPutPackageFind(p) ==
  /\ procs[p].pc = "ua_find"
  /\ LET pr == procs[p]
         rowNumber == findRowNumber(packages, pr.req.id)
     IN  IF rowNumber = -1
         THEN procs' = [procs EXCEPT ![p] = [pr EXCEPT !.pc = "answered", !.status = 404]]
         ELSE procs' = [procs EXCEPT ![p] =
                          [pr EXCEPT !.rowNumber = rowNumber, !.pc = "ua_existing"]]
  /\ UNCHANGED <<backend, packages, projects, payments, serial, calc>>

ShPutPackageExisting(p) ==
  /\ procs[p].pc = "ua_existing"
  /\ LET pr == procs[p]
         existing == getById(packages, pr.req.id)
     IN  IF existing = <<>>
         THEN \* existing.name throws; the route's catch answers 500
              procs' = [procs EXCEPT ![p] = [pr EXCEPT !.pc = "answered", !.status = 500]]
         ELSE procs' = [procs EXCEPT ![p] =
                          [pr EXCEPT !.existing = existing, !.pc = "ua_write"]]
  /\ UNCHANGED <<backend, packages, projects, payments, serial, calc>>

\* pkg.price || existing.price
ShPutPackageWrite(p) ==
  /\ procs[p].pc = "ua_write"
  /\ LET pr == procs[p]
         row == [id |-> pr.req.id,
                 price |-> IF pr.req.price # 0 THEN pr.req.price
                           ELSE pr.existing[1].price]
     IN  /\ packages' = updateRow(packages, pr.rowNumber, row)
         /\ procs' = [procs EXCEPT ![p] = [pr EXCEPT !.pc = "answered", !.status = 200]]
  /\ UNCHANGED <<backend, projects, payments, serial, calc>>

\* DELETE /api/packages/:id -> deletePackage
ShStartDeletePackage(p, req) ==
  /\ backend = "sheets" /\ CanStart(p)
  /\ procs' = [procs EXCEPT ![p] = Entered(p, "deletePackage", req, "da_find")]
  /\ UNCHANGED <<backend, packages, projects, payments, serial, calc>>

ShDeletePackageFind(p) ==
  /\ procs[p].pc = "da_find"
  /\ LET pr == procs[p]
         rowNumber == findRowNumber(packages, pr.req.id)
     IN  IF rowNumber = -1
         THEN procs' = [procs EXCEPT ![p] = [pr EXCEPT !.pc = "answered", !.status = 404]]
         ELSE procs' = [procs EXCEPT ![p] =
                          [pr EXCEPT !.rowNumber = rowNumber, !.pc = "da_sheetmeta"]]
  /\ UNCHANGED <<backend, packages, projects, payments, serial, calc>>

ShDeletePackageSheetMeta(p) ==
  /\ procs[p].pc = "da_sheetmeta"
  /\ procs' = [procs EXCEPT ![p].pc = "da_deleterow"]
  /\ UNCHANGED <<backend, packages, projects, payments, serial, calc>>

ShDeletePackageRow(p) ==
  /\ procs[p].pc = "da_deleterow"
  /\ packages' = deleteRow(packages, procs[p].rowNumber)
  /\ procs' = [procs EXCEPT ![p].pc = "answered", ![p].status = 200]
  /\ UNCHANGED <<backend, projects, payments, serial, calc>>

\* POST /api/packages -> createPackage
ShStartCreatePackage(p, req) ==
  /\ backend = "sheets" /\ CanStart(p)
  /\ IF req.name = "" \/ (~req.hasPrice /\ ~req.nullPrice)
     THEN procs' = [procs EXCEPT ![p] = Answered(p, "createPackage", req, 400)]
     ELSE /\ Len(packages) < MaxPackages
          /\ procs' = [procs EXCEPT ![p] = Entered(p, "createPackage", req, "ca_nextid")]
  /\ UNCHANGED <<backend, packages, projects, payments, serial, calc>>

ShCreatePackageNextId(p) ==
  /\ procs[p].pc = "ca_nextid"
  /\ procs' = [procs EXCEPT ![p].newId = getNextId(packages), ![p].pc = "ca_append"]
  /\ UNCHANGED <<backend, packages, projects, payments, serial, calc>>

\* pkg.price || 0
ShCreatePackageAppend(p) ==
  /\ procs[p].pc = "ca_append"
  /\ packages' = appendRow(packages, [id |-> procs[p].newId,
                                      price |-> procs[p].req.price])
  /\ procs' = [procs EXCEPT ![p].pc = "answered", ![p].status = 201]
  /\ UNCHANGED <<backend, projects, payments, serial, calc>>

(***************************************************************************)
(* Postgres servers (two index.js).  Backend "pg" is the second server's   *)
(* database with both servers in front of it: the first server's POST      *)
(* /api/projects prices a booking from its package, the second server      *)
(* takes payments and manages bookings and packages.  Backend "pg1" is the *)
(* first server alone on the tables it creates.  pool.query is             *)
(* one autocommitted statement.  The payment handlers hold a pooled client *)
(* and run BEGIN .. COMMIT under READ COMMITTED: a transaction's writes    *)
(* stay in txInsert / txDelete / txUpdate until COMMIT, a row it has       *)
(* updated or deleted is locked, and a statement that needs a row locked   *)
(* by another transaction waits.                                           *)
(***************************************************************************)
ProjectLockedByOther(p, id) ==
  \E q \in DOMAIN procs \ {p} :
    \/ procs[q].tx /\ \E i \in 1..Len(procs[q].txUpdate) : procs[q].txUpdate[i].id = id
    \/ procs[q].pc = "dj_wait" /\ procs[q].req.id = id

PaymentLockedByOther(p, id) ==
  \E q \in DOMAIN procs : q # p /\ procs[q].tx /\ id \in procs[q].txDelete

\* What COMMIT makes visible.
PgCommitPayments(pr) ==
  SelectSeq(payments, LAMBDA r : r.id \notin pr.txDelete) \o pr.txInsert

PgCommitProjects(pr) ==
  [i \in 1..Len(projects) |->
     IF IndexOfId(pr.txUpdate, projects[i].id) # 0
     THEN pr.txUpdate[IndexOfId(pr.txUpdate, projects[i].id)]
     ELSE projects[i]]

\* finally { client.release() }: the connection goes back to the pool, in
\* whatever state its transaction is.
PgRelease(pr) ==
  [pr EXCEPT !.conn = FALSE, !.tx = FALSE, !.released = @ + 1,
             !.openAtRelease = pr.tx,
             !.txInsert = <<>>, !.txDelete = {}, !.txUpdate = <<>>]

\* res.status(status).json(...), then the finally block
PgAnswer(pr, status) ==
  [PgRelease(pr) EXCEPT !.pc = "answered", !.status = status]

\* await client.query("COMMIT") or await client.query("ROLLBACK") has resolved
PgEndTx(pr) == [pr EXCEPT !.tx = FALSE, !.ended = @ + 1]

\* POST /api/packages
PgCreatePackage(p, req) ==
  /\ backend = "pg" /\ CanStart(p)
  /\ IF req.name = "" \/ (~req.hasPrice /\ ~req.nullPrice)
     THEN /\ procs' = [procs EXCEPT ![p] = Answered(p, "createPackage", req, 400)]
          /\ UNCHANGED <<packages, serial>>
     ELSE IF req.nullPrice
     THEN \* price = NULL violates NOT NULL: the catch answers 500
          /\ serial.packages <= MaxSerial
          /\ serial' = [serial EXCEPT !.packages = @ + 1]
          /\ procs' = [procs EXCEPT ![p] =
                         [Answered(p, "createPackage", req, 500) EXCEPT !.failed = TRUE]]
          /\ UNCHANGED packages
     ELSE /\ Len(packages) < MaxPackages /\ serial.packages <= MaxSerial
          /\ packages' = Append(packages, [id |-> serial.packages, price |-> req.price])
          /\ serial' = [serial EXCEPT !.packages = @ + 1]
          /\ procs' = [procs EXCEPT ![p] = Answered(p, "createPackage", req, 201)]
  /\ UNCHANGED <<backend, projects, payments, calc>>

\* The first server's routes run on either schema: on the tables it creates
\* itself ("pg1", where it is the only server) and on the second server's.
FirstServer == backend \in {"pg", "pg1"}

\* POST /api/packages (first server): no validation and no try.  name and
\* price are NOT NULL: without one of them the INSERT rejects, and so does
\* the promise of the handler, with nothing sent.
PgFirstCreatePackage(p, req) ==
  /\ FirstServer /\ CanStart(p)
  /\ serial.packages <= MaxSerial
  /\ serial' = [serial EXCEPT !.packages = @ + 1]
  /\ IF ~req.hasName \/ ~req.hasPrice
     THEN /\ procs' = [procs EXCEPT ![p] =
                         [Entered(p, "createPackage", req, "rejected") EXCEPT
                            !.failed = TRUE]]
          /\ UNCHANGED packages
     ELSE /\ Len(packages) < MaxPackages
          /\ packages' = Append(packages, [id |-> serial.packages, price |-> req.price])
          /\ procs' = [procs EXCEPT ![p] = Answered(p, "createPackage", req, 200)]
  /\ UNCHANGED <<backend, projects, payments, calc>>

PgNewProject(id, req, price, d) ==
  [id |-> id, package_id |-> req.package_id, status |-> "New",
   price |-> Money(price), deposit_percent |-> d.percent,
   deposit_amount |-> Money(d.depositAmount),
   balance_amount |-> Money(d.balanceAmount),
   amount_paid |-> 0, revision_limit |-> 2, revisions_used |-> 0]

\* POST /api/projects (first server): the handler is entered and awaits
\* SELECT price FROM packages WHERE id = $1.
PgCreateProject(p, req) ==
  /\ FirstServer /\ CanStart(p)
  /\ \/ RowById(packages, req.package_id) = <<>>
     \/ Len(projects) < MaxProjects /\ serial.projects <= MaxSerial
  /\ procs' = [procs EXCEPT ![p] = Entered(p, "createProject", req, "cj_select")]
  /\ UNCHANGED <<backend, packages, projects, payments, serial, calc>>

\* The SELECT has resolved: 400 without a package, else calcDeposit and the
\* INSERT is sent.
PgCreateProjectSelect(p) ==
  /\ procs[p].pc = "cj_select"
  /\ LET pr == procs[p]
         pkgRes == RowById(packages, pr.req.package_id)
     IN  IF Len(pkgRes) = 0
         THEN procs' = [procs EXCEPT ![p] = [pr EXCEPT !.pc = "answered", !.status = 400]]
         ELSE procs' = [procs EXCEPT ![p] =
                          [pr EXCEPT !.existing = pkgRes, !.pc = "cj_insert"]]
  /\ UNCHANGED <<backend, packages, projects, payments, serial, calc>>

\* INSERT INTO projects ... RETURNING *; package_id REFERENCES packages(id).
\* The handler has no try: when the package has gone the INSERT rejects and
\* so does the promise of the handler, with nothing sent.
PgCreateProjectInsert(p) ==
  /\ procs[p].pc = "cj_insert"
  /\ LET pr == procs[p]
         price == pr.existing[1].price
         d == calcDepositPg(price)
     IN  /\ serial' = [serial EXCEPT !.projects = @ + 1]
         /\ IF RowById(packages, pr.req.package_id) = <<>>
            THEN /\ procs' = [procs EXCEPT ![p] =
                                [pr EXCEPT !.pc = "rejected", !.failed = TRUE]]
                 /\ UNCHANGED projects
            ELSE /\ projects' = Append(projects,
                                       PgNewProject(serial.projects, pr.req, price, d))
                 /\ procs' = [procs EXCEPT ![p] =
                                [pr EXCEPT !.pc = "answered", !.status = 200,
                                           !.newId = serial.projects]]
  /\ UNCHANGED <<backend, packages, payments, calc>>

\* The row the second server's INSERT INTO projects stores from the body:
\* status || 'New', amount_paid || 0, revision_limit || 2,
\* revisions_used || 0.
PgInsertRow(id, req) ==
  [id |-> id, package_id |-> req.package_id,
   status |-> IF req.status = "" THEN "New" ELSE req.status,
   price |-> NumericRound(Money(req.price)),
   deposit_percent |-> req.deposit_percent,
   deposit_amount |-> NumericRound(Money(req.deposit_amount)),
   balance_amount |-> NumericRound(Money(req.balance_amount)),
   amount_paid |-> NumericRound(Money(req.amount_paid)),
   revision_limit |-> IF req.revision_limit \in {NULL, 0} THEN 2 ELSE req.revision_limit,
   revisions_used |-> IF req.revisions_used = NULL THEN 0 ELSE req.revisions_used]

\* POST /api/projects (second server): one INSERT of the body's columns.
\* price, deposit_percent, deposit_amount and balance_amount are NOT NULL
\* and package_id references packages: a body without them, or naming a
\* package that does not exist, makes the INSERT reject and the catch
\* answers 500.
PgInsertProject(p, req) ==
  /\ backend = "pg" /\ CanStart(p)
  /\ serial.projects <= MaxSerial
  /\ serial' = [serial EXCEPT !.projects = @ + 1]
  /\ IF \/ ~req.hasLedger
        \/ req.package_id # 0 /\ RowById(packages, req.package_id) = <<>>
     THEN /\ procs' = [procs EXCEPT ![p] =
                         [Answered(p, "createProject", req, 500) EXCEPT !.failed = TRUE]]
          /\ UNCHANGED projects
     ELSE /\ Len(projects) < MaxProjects
          /\ projects' = Append(projects, PgInsertRow(serial.projects, req))
          /\ procs' = [procs EXCEPT ![p] =
                         [Answered(p, "createProject", req, 201) EXCEPT
                            !.newId = serial.projects]]
  /\ UNCHANGED <<backend, packages, payments, calc>>

\* POST /api/payments
PgStartPostPayment(p, req) ==
  /\ backend = "pg" /\ CanStart(p)
  /\ Len(payments) < MaxPayments /\ serial.payments <= MaxSerial
  /\ procs' = [procs EXCEPT ![p] = Entered(p, "postPayment", req, "pp_connect")]
  /\ UNCHANGED <<backend, packages, projects, payments, serial, calc>>

PgPostConnect(p) ==
  /\ procs[p].pc = "pp_connect"
  /\ LET pr == procs[p]
         req == pr.req
     IN  IF req.project_id = 0 \/ ~req.hasAmount \/ req.amount = 0 \/ req.method = ""
         THEN procs' = [procs EXCEPT ![p] =
                          PgAnswer([pr EXCEPT !.conn = TRUE, !.acquired = @ + 1], 400)]
         ELSE procs' = [procs EXCEPT ![p] =
                          [pr EXCEPT !.conn = TRUE, !.acquired = @ + 1,
                                     !.pc = "pp_begin"]]
  /\ UNCHANGED <<backend, packages, projects, payments, serial, calc>>

PgPostBegin(p) ==
  /\ procs[p].pc = "pp_begin"
  /\ procs' = [procs EXCEPT ![p].tx = TRUE, ![p].begun = @ + 1, ![p].pc = "pp_insert"]
  /\ UNCHANGED <<backend, packages, projects, payments, serial, calc>>

\* INSERT INTO payments ... RETURNING *; project_id REFERENCES projects(id):
\* the foreign-key check waits while a DELETE of the booking holds its row.
PgPostInsert(p) ==
  /\ procs[p].pc = "pp_insert"
  /\ \A q \in DOMAIN procs \ {p} :
       ~(procs[q].pc = "dj_wait" /\ procs[q].req.id = procs[p].req.project_id)
  /\ LET pr == procs[p]
         req == pr.req
     IN  /\ serial' = [serial EXCEPT !.payments = @ + 1]
         /\ IF RowById(projects, req.project_id) = <<>>
            THEN procs' = [procs EXCEPT ![p] =
                             [pr EXCEPT !.pc = "pg_rollback", !.failed = TRUE]]
            ELSE procs' = [procs EXCEPT ![p] =
                             [pr EXCEPT !.newId = serial.payments,
                                        !.txInsert = <<[id |-> serial.payments,
                                                        project_id |-> req.project_id,
                                                        amount |-> NumericRound(req.amount),
                                                        method |-> req.method]>>,
                                        !.pc = "pp_update"]]
  /\ UNCHANGED <<backend, packages, projects, payments, calc>>

\* UPDATE projects SET amount_paid = amount_paid + $1,
\*                     balance_amount = balance_amount - $1 WHERE id = $2
PgAdjust(row, amount) ==
  [row EXCEPT !.amount_paid = NumericRound(@ + amount),
              !.balance_amount = NumericRound(@ - amount)]

PgPostUpdate(p) ==
  /\ procs[p].pc = "pp_update"
  /\ ~ProjectLockedByOther(p, procs[p].req.project_id)
  /\ LET pr == procs[p]
         row == RowById(projects, pr.req.project_id)
     IN  procs' = [procs EXCEPT ![p] =
                     [pr EXCEPT !.txUpdate = IF row = <<>> THEN <<>>
                                             ELSE <<PgAdjust(row[1], pr.req.amount)>>,
                                !.pc = "pp_commit"]]
  /\ UNCHANGED <<backend, packages, projects, payments, serial, calc>>

PgPostCommit(p) ==
  /\ procs[p].pc = "pp_commit"
  /\ payments' = PgCommitPayments(procs[p])
  /\ projects' = PgCommitProjects(procs[p])
  /\ procs' = [procs EXCEPT ![p] = PgAnswer(PgEndTx(procs[p]), 201)]
  /\ UNCHANGED <<backend, packages, serial, calc>>

\* catch (err) { await client.query("ROLLBACK"); res.status(500) ... }
PgRollback(p) ==
  /\ procs[p].pc = "pg_rollback"
  /\ procs' = [procs EXCEPT ![p] = PgAnswer(PgEndTx(procs[p]), 500)]
  /\ UNCHANGED <<backend, packages, projects, payments, serial, calc>>

\* DELETE /api/payments/:id
PgStartDeletePayment(p, req) ==
  /\ backend = "pg" /\ CanStart(p)
  /\ procs' = [procs EXCEPT ![p] = Entered(p, "deletePayment", req, "pd_connect")]
  /\ UNCHANGED <<backend, packages, projects, payments, serial, calc>>

PgDeleteConnect(p) ==
  /\ procs[p].pc = "pd_connect"
  /\ procs' = [procs EXCEPT ![p].conn = TRUE, ![p].acquired = @ + 1,
                            ![p].pc = "pd_begin"]
  /\ UNCHANGED <<backend, packages, projects, payments, serial, calc>>

PgDeleteBegin(p) ==
  /\ procs[p].pc = "pd_begin"
  /\ procs' = [procs EXCEPT ![p].tx = TRUE, ![p].begun = @ + 1, ![p].pc = "pd_select"]
  /\ UNCHANGED <<backend, packages, projects, payments, serial, calc>>

PgDeleteSelect(p) ==
  /\ procs[p].pc = "pd_select"
  /\ LET pr == procs[p]
         paymentResult == RowById(payments, pr.req.id)
     IN  IF Len(paymentResult) = 0
         THEN procs' = [procs EXCEPT ![p] = [pr EXCEPT !.pc = "pd_notfound"]]
         ELSE procs' = [procs EXCEPT ![p] =
                          [pr EXCEPT !.payment = paymentResult, !.pc = "pd_delete"]]
  /\ UNCHANGED <<backend, packages, projects, payments, serial, calc>>

\* A not-found branch that reports success.
PgDeleteNotFoundAsSuccess(p) ==
  /\ procs[p].pc = "pd_notfound"
  /\ procs' = [procs EXCEPT ![p] = PgAnswer(PgEndTx(procs[p]), 200)]
  /\ UNCHANGED <<backend, packages, projects, payments, serial, calc>>

\* await client.query("ROLLBACK"); return res.status(404)
PgDeleteNotFound(p) ==
  /\ procs[p].pc = "pd_notfound"
  /\ procs' = [procs EXCEPT ![p] = PgAnswer(PgEndTx(procs[p]), 404)]
  /\ UNCHANGED <<backend, packages, projects, payments, serial, calc>>

PgDeleteDelete(p) ==
  /\ procs[p].pc = "pd_delete"
  /\ ~PaymentLockedByOther(p, procs[p].req.id)
  /\ LET pr == procs[p]
     IN  procs' = [procs EXCEPT ![p] =
                     [pr EXCEPT !.txDelete = IF RowById(payments, pr.req.id) = <<>>
                                             THEN {} ELSE {pr.req.id},
                                !.pc = "pd_update"]]
  /\ UNCHANGED <<backend, packages, projects, payments, serial, calc>>

PgDeleteUpdate(p) ==
  /\ procs[p].pc = "pd_update"
  /\ ~ProjectLockedByOther(p, procs[p].payment[1].project_id)
  /\ LET pr == procs[p]
         payment == pr.payment[1]
         row == RowById(projects, payment.project_id)
     IN  procs' = [procs EXCEPT ![p] =
                     [pr EXCEPT !.txUpdate = IF row = <<>> THEN <<>>
                                             ELSE <<PgAdjust(row[1], 0 - payment.amount)>>,
                                !.pc = "pd_commit"]]
  /\ UNCHANGED <<backend, packages, projects, payments, serial, calc>>

PgDeleteCommit(p) ==
  /\ procs[p].pc = "pd_commit"
  /\ payments' = PgCommitPayments(procs[p])
  /\ projects' = PgCommitProjects(procs[p])
  /\ procs' = [procs EXCEPT ![p] = PgAnswer(PgEndTx(procs[p]), 200)]
  /\ UNCHANGED <<backend, packages, serial, calc>>

\* GET /api/dashboard (first server): the pending query; the counts, the
\* revenue and the recent bookings it also reads are not part of the model.
PgDashboard(p) ==
  /\ FirstServer /\ CanStart(p)
  /\ procs' = [procs EXCEPT ![p] =
                 [Answered(p, "dashboard", NoReq, 200) EXCEPT
                    !.pendingPayments = SumPending(projects, {"Cancelled"})]]
  /\ UNCHANGED <<backend, packages, projects, payments, serial, calc>>

\* GET /api/dashboard when one of its queries rejects:
\* catch (err) { res.json({ ..., pendingPayments: 0, ... }) }
PgDashboardFails(p) ==
  /\ FirstServer /\ CanStart(p)
  /\ procs' = [procs EXCEPT ![p] =
                 [Answered(p, "dashboard", NoReq, 200) EXCEPT
                    !.pendingPayments = 0, !.failed = TRUE]]
  /\ UNCHANGED <<backend, packages, projects, payments, serial, calc>>

\* PATCH /api/projects/:id/status (first server): no validation
PgPatchStatus(p, req) ==
  /\ FirstServer /\ CanStart(p)
  /\ ~ProjectLockedByOther(p, req.id)
  /\ projects' = UpdateWhereId(projects, req.id,
                               LAMBDA r : [r EXCEPT !.status = req.status])
  /\ procs' = [procs EXCEPT ![p] = Answered(p, "patchStatus", req, 200)]
  /\ UNCHANGED <<backend, packages, payments, serial, calc>>

\* The row UPDATE projects SET ... = $1..$18 writes from a body that gives
\* the ledger columns: package_id, revision_limit and revisions_used are
\* the body's, NULL when it does not give them.
PgPutRow(row, req) ==
  [row EXCEPT !.package_id = req.package_id,
              !.status = req.status,
              !.price = NumericRound(Money(req.price)),
              !.deposit_percent = req.deposit_percent,
              !.deposit_amount = NumericRound(Money(req.deposit_amount)),
              !.balance_amount = NumericRound(Money(req.balance_amount)),
              !.amount_paid = NumericRound(Money(req.amount_paid)),
              !.revision_limit = req.revision_limit,
              !.revisions_used = req.revisions_used]

\* PUT /api/projects/:id (second server)
PgPutProject(p, req) ==
  /\ backend = "pg" /\ CanStart(p)
  /\ ~ProjectLockedByOther(p, req.id)
  /\ IF RowById(projects, req.id) = <<>>
     THEN /\ procs' = [procs EXCEPT ![p] = Answered(p, "putProject", req, 404)]
          /\ UNCHANGED projects
     ELSE IF \/ ~req.hasLedger
             \/ req.package_id # 0 /\ RowById(packages, req.package_id) = <<>>
     THEN \* price = NULL violates NOT NULL, a package_id without its package
          \* the foreign key: the catch answers 500
          /\ procs' = [procs EXCEPT ![p] =
                         [Answered(p, "putProject", req, 500) EXCEPT !.failed = TRUE]]
          /\ UNCHANGED projects
     ELSE /\ projects' = UpdateWhereId(projects, req.id, LAMBDA r : PgPutRow(r, req))
          /\ procs' = [procs EXCEPT ![p] = Answered(p, "putProject", req, 200)]
  /\ UNCHANGED <<backend, packages, payments, serial, calc>>

\* DELETE /api/projects/:id (second server); payments.project_id is
\* REFERENCES projects(id) ON DELETE CASCADE.  The statement waits while
\* another transaction holds the booking's row (updated, or referenced by a
\* payment it has inserted, whose foreign-key check holds the row FOR KEY
\* SHARE).  With the row its own it deletes the booking's payments; when
\* another transaction has deleted one of them and its UPDATE of the booking
\* is under way, each statement waits for the other and Postgres ends the
\* deadlock by rejecting one: this DELETE (the catch answers 500), or the
\* other's UPDATE, whose transaction is aborted and lets its rows go, and
\* then this DELETE, still holding the booking's row (dj_wait), goes on.
PgDeleteProject(p, req) ==
  /\ backend = "pg"
  /\ CanStart(p) \/ (procs[p].pc = "dj_wait" /\ procs[p].req = req)
  /\ ~ProjectLockedByOther(p, req.id)
  /\ \A q \in DOMAIN procs \ {p} :
       procs[q].tx => \A i \in 1..Len(procs[q].txInsert) :
                        procs[q].txInsert[i].project_id # req.id
  /\ IF RowById(projects, req.id) = <<>>
     THEN /\ procs' = [procs EXCEPT ![p] = Answered(p, "deleteProject", req, 404)]
          /\ UNCHANGED <<projects, payments>>
     ELSE IF \E i \in 1..Len(payments) :
               payments[i].project_id = req.id /\ PaymentLockedByOther(p, payments[i].id)
     THEN /\ \E q \in DOMAIN procs \ {p} :
               /\ procs[q].tx /\ procs[q].pc = "pd_update"
               /\ \E i \in 1..Len(payments) :
                    payments[i].project_id = req.id /\ payments[i].id \in procs[q].txDelete
               /\ \/ procs' = [procs EXCEPT ![p] =
                                 [Answered(p, "deleteProject", req, 500) EXCEPT
                                    !.failed = TRUE]]
                  \/ procs' = [procs EXCEPT
                                 ![p] = Entered(p, "deleteProject", req, "dj_wait"),
                                 ![q].pc = "pg_rollback", ![q].failed = TRUE,
                                 ![q].txInsert = <<>>, ![q].txDelete = {},
                                 ![q].txUpdate = <<>>]
          /\ UNCHANGED <<projects, payments>>
     ELSE /\ projects' = DeleteWhere(projects, LAMBDA r : r.id = req.id)
          /\ payments' = DeleteWhere(payments, LAMBDA r : r.project_id = req.id)
          /\ procs' = [procs EXCEPT ![p] = Answered(p, "deleteProject", req, 200)]
  /\ UNCHANGED <<backend, packages, serial, calc>>

\* PUT /api/packages/:id (second server).  name and price are NOT NULL: a
\* body without one of them (undefined or null; '' is a value) makes the
\* UPDATE of an existing row reject, and the catch answers 500.
PgPutPackage(p, req) ==
  /\ backend = "pg" /\ CanStart(p)
  /\ IF RowById(packages, req.id) = <<>>
     THEN /\ procs' = [procs EXCEPT ![p] = Answered(p, "putPackage", req, 404)]
          /\ UNCHANGED packages
     ELSE IF ~req.hasName \/ ~req.hasPrice
     THEN /\ procs' = [procs EXCEPT ![p] =
                         [Answered(p, "putPackage", req, 500) EXCEPT !.failed = TRUE]]
          /\ UNCHANGED packages
     ELSE /\ packages' = UpdateWhereId(packages, req.id,
                                       LAMBDA r : [r EXCEPT !.price = req.price])
          /\ procs' = [procs EXCEPT ![p] = Answered(p, "putPackage", req, 200)]
  /\ UNCHANGED <<backend, projects, payments, serial, calc>>

\* A package deletion that takes the bookings of the package with it.
PgDetachCascading(rows, id) == SelectSeq(rows, LAMBDA r : r.package_id # id)

\* projects.package_id is REFERENCES packages(id) ON DELETE SET NULL
PgDetach(rows, id) ==
  [i \in 1..Len(rows) |->
     IF rows[i].package_id = id THEN [rows[i] EXCEPT !.package_id = 0] ELSE rows[i]]

\* ON DELETE SET NULL updates the bookings of the package: the DELETE waits
\* while another transaction holds the row of one of them.
BookingOfPackageLockedByOther(p, id) ==
  \E i \in 1..Len(projects) :
    projects[i].package_id = id /\ ProjectLockedByOther(p, projects[i].id)

\* DELETE /api/packages/:id (second server)
PgDeletePackage(p, req) ==
  /\ backend = "pg" /\ CanStart(p)
  /\ ~BookingOfPackageLockedByOther(p, req.id)
  /\ IF RowById(packages, req.id) = <<>>
     THEN /\ procs' = [procs EXCEPT ![p] = Answered(p, "deletePackage", req, 404)]
          /\ UNCHANGED <<packages, projects>>
     ELSE /\ packages' = DeleteWhere(packages, LAMBDA r : r.id = req.id)
          /\ projects' = PgDetach(projects, req.id)
          /\ procs' = [procs EXCEPT ![p] = Answered(p, "deletePackage", req, 200)]
  /\ UNCHANGED <<backend, payments, serial, calc>>

\* DELETE /api/packages/:id (first server): no try, and {success: true}
\* whether or not a row was deleted.  On its own tables package_id is
\* REFERENCES packages(id) with no ON DELETE action: the DELETE of a package
\* that has bookings rejects, and so does the promise of the handler.
PgFirstDeletePackage(p, req) ==
  /\ FirstServer /\ CanStart(p)
  /\ backend = "pg" => ~BookingOfPackageLockedByOther(p, req.id)
  /\ IF backend = "pg1" /\ \E i \in 1..Len(projects) : projects[i].package_id = req.id
     THEN /\ procs' = [procs EXCEPT ![p] =
                         [Entered(p, "deletePackage", req, "rejected") EXCEPT
                            !.failed = TRUE]]
          /\ UNCHANGED <<packages, projects>>
     ELSE /\ packages' = DeleteWhere(packages, LAMBDA r : r.id = req.id)
          /\ projects' = IF backend = "pg" THEN PgDetach(projects, req.id) ELSE projects
          /\ procs' = [procs EXCEPT ![p] = Answered(p, "deletePackage", req, 200)]
  /\ UNCHANGED <<backend, payments, serial, calc>>

(***************************************************************************)
(* Failing persistence calls.                                              *)
(***************************************************************************)
ShCallPcs ==
  {"sp_nextid", "sp_append", "cp_nextid", "cp_append", "cp_getproject",
   "up_find", "up_existing", "up_write", "dp_getpayment", "dp_find",
   "dp_getproject", "dp_sheetmeta", "dp_deleterow",
   "dj_find", "dj_sheetmeta", "dj_deleterow", "ua_find", "ua_existing",
   "ua_write", "da_find", "da_sheetmeta", "da_deleterow",
   "ca_nextid", "ca_append"}

\* A Sheets API call rejects: the route's catch answers 500.
ShFail(p) ==
  /\ procs[p].pc \in ShCallPcs
  /\ procs' = [procs EXCEPT ![p].pc = "answered", ![p].status = 500,
                            ![p].failed = TRUE]
  /\ UNCHANGED <<backend, packages, projects, payments, serial, calc>>

PgQueryPcs ==
  {"pp_begin", "pp_insert", "pp_update", "pp_commit",
   "pd_begin", "pd_select", "pd_notfound", "pd_delete", "pd_update", "pd_commit"}

\* client.query rejects inside the try: control goes to the catch.  The
\* transaction is aborted with the statement: what it had changed is
\* discarded and its row locks are released before the ROLLBACK of the catch.
PgFail(p) ==
  /\ procs[p].pc \in PgQueryPcs
  /\ procs' = [procs EXCEPT ![p].pc = "pg_rollback", ![p].failed = TRUE,
                            ![p].txInsert = <<>>, ![p].txDelete = {},
                            ![p].txUpdate = <<>>]
  /\ UNCHANGED <<backend, packages, projects, payments, serial, calc>>

\* const client = await pool.connect() rejects: the call is outside the try,
\* so the promise of the handler rejects with nothing sent.
PgConnectFails(p) ==
  /\ procs[p].pc \in {"pp_connect", "pd_connect"}
  /\ procs' = [procs EXCEPT ![p].pc = "rejected", ![p].failed = TRUE]
  /\ UNCHANGED <<backend, packages, projects, payments, serial, calc>>

\* await client.query("ROLLBACK") rejects inside the catch: the finally block
\* runs, res.status(500) is never reached and the promise of the handler
\* rejects.
PgRollbackFails(p) ==
  /\ procs[p].pc = "pg_rollback"
  /\ procs' = [procs EXCEPT ![p] =
                 [PgRelease(procs[p]) EXCEPT !.pc = "rejected", !.failed = TRUE]]
  /\ UNCHANGED <<backend, packages, projects, payments, serial, calc>>

\* PATCH /api/projects/:id/status (first server) when pool.query rejects:
\* the handler has no try.
PgPatchStatusFails(p, req) ==
  /\ FirstServer /\ CanStart(p)
  /\ procs' = [procs EXCEPT ![p] =
                 [Entered(p, "patchStatus", req, "rejected") EXCEPT !.failed = TRUE]]
  /\ UNCHANGED <<backend, packages, projects, payments, serial, calc>>

\* GET /api/clients (first server)
PgGetClients(p) ==
  /\ FirstServer /\ CanStart(p)
  /\ procs' = [procs EXCEPT ![p] = Answered(p, "getClients", NoReq, 200)]
  /\ UNCHANGED <<backend, packages, projects, payments, serial, calc>>

\* catch (e) { res.status(500).json({error: e.message}) }
PgGetClientsFails(p) ==
  /\ FirstServer /\ CanStart(p)
  /\ procs' = [procs EXCEPT ![p] =
                 [Answered(p, "getClients", NoReq, 500) EXCEPT
                    !.failed = TRUE, !.detail = TRUE]]
  /\ UNCHANGED <<backend, packages, projects, payments, serial, calc>>

\* What express does with the rejected promise of an async handler depends
\* on its version: 4 drops it and the request stays open; 5 passes the error
\* to its error handler, which answers 500 with the stack unless NODE_ENV is
\* production.
ExpressCatches(p) ==
  /\ procs[p].pc = "rejected"
  /\ \E stack \in BOOLEAN :
       procs' = [procs EXCEPT ![p].pc = "answered", ![p].status = 500,
                                 ![p].detail = stack]
  /\ UNCHANGED <<backend, packages, projects, payments, serial, calc>>

(***************************************************************************)
(* Specifications.                                                         *)
(***************************************************************************)
Procs == {1, 2}

InitStore ==
  /\ packages = <<>>
  /\ projects = <<>>
  /\ payments = <<>>
  /\ serial = [packages |-> 1, projects |-> 1, payments |-> 1]
  /\ procs = [p \in Procs |-> IdleProc]

\* The calculator on its own, over every whole price up to MaxPrice.
CalcInit ==
  /\ backend \in {"sqlite", "pg"}
  /\ InitStore
  /\ calc \in {[NoCalc EXCEPT !.price = pr] : pr \in 0..MaxPrice}

CalcApply ==
  /\ ~calc.done
  /\ LET d == IF backend = "pg" THEN calcDepositPg(calc.price)
              ELSE calcDeposit(calc.price)
     IN  calc' = [price |-> calc.price, done |-> TRUE, percent |-> d.percent,
                  depositAmount |-> d.depositAmount,
                  balanceAmount |-> d.balanceAmount]
  /\ UNCHANGED <<backend, packages, projects, payments, serial, procs>>

CalcNext == CalcApply

SpecCalc == CalcInit /\ [][CalcNext]_vars

\* One request at a time, on each of the three servers.
Init ==
  /\ backend \in Backends
  /\ InitStore
  /\ calc = NoCalc

SqliteNext(p, PkgR, ProjR, PayR, DelR) ==
  \/ \E req \in PkgR : SqCreatePackage(p, req)
  \/ \E req \in ProjR : SqCreateProject(p, req)
  \/ \E req \in PayR : SqPostPayment(p, req)
  \/ \E req \in DelR : SqDeletePayment(p, req)

SheetsNext(p, ProjR, PayR, DelR) ==
  \/ \E req \in ProjR : ShStartCreateProject(p, req)
  \/ ShCreateProjectNextId(p)
  \/ ShCreateProjectAppend(p)
  \/ \E req \in PayR : ShStartPostPayment(p, req)
  \/ ShPostNextId(p)
  \/ ShPostAppend(p)
  \/ ShPostGetProject(p)
  \/ ShUpdateFind(p)
  \/ ShUpdateExisting(p)
  \/ ShUpdateWrite(p)
  \/ \E req \in DelR : ShStartDeletePayment(p, req)
  \/ ShDeleteGetPayment(p)
  \/ ShDeleteFind(p)
  \/ ShDeleteGetProject(p)
  \/ ShDeleteSheetMeta(p)
  \/ ShDeleteRow(p)

PgNext(p, PkgR, ProjR, PayR, DelR) ==
  \/ \E req \in PkgR : PgCreatePackage(p, req)
  \/ \E req \in ProjR : PgCreateProject(p, req)
  \/ PgCreateProjectSelect(p)
  \/ PgCreateProjectInsert(p)
  \/ \E req \in PayR : PgStartPostPayment(p, req)
  \/ PgPostConnect(p)
  \/ PgPostBegin(p)
  \/ PgPostInsert(p)
  \/ PgPostUpdate(p)
  \/ PgPostCommit(p)
  \/ PgRollback(p)
  \/ \E req \in DelR : PgStartDeletePayment(p, req)
  \/ PgDeleteConnect(p)
  \/ PgDeleteBegin(p)
  \/ PgDeleteSelect(p)
  \/ PgDeleteNotFound(p)
  \/ PgDeleteDelete(p)
  \/ PgDeleteUpdate(p)
  \/ PgDeleteCommit(p)

Next ==
  \/ SqliteNext(1, PackageReqs, ProjectReqs, PaymentReqs, DeleteReqs)
  \/ SheetsNext(1, SheetsProjectReqs, PaymentReqs, DeleteReqs)
  \/ PgNext(1, PackageReqs, ProjectReqs, PaymentReqs, DeleteReqs)
  \/ Respond(1)

Spec == Init /\ [][Next]_vars

\* Payment requests against one booking that was created (priced 20000 by
\* the calculator) before they start; each worker answers MaxServed requests.
BookedPrice == Max(PriceInputs)

BookedProject(b) ==
  IF b = "sheets"
  THEN ShNewProject(1, [NoReq EXCEPT
                          !.client_id = 1, !.package_id = 1, !.price = BookedPrice,
                          !.deposit_amount = calcDeposit(BookedPrice).depositAmount,
                          !.balance_amount = calcDeposit(BookedPrice).balanceAmount])
  ELSE IF b \in {"pg", "pg1"}
  THEN PgNewProject(1, [NoReq EXCEPT !.client_id = 1, !.package_id = 1],
                    BookedPrice, calcDepositPg(BookedPrice))
  ELSE SqNewProject(1, [NoReq EXCEPT !.client_id = 1, !.package_id = 1],
                    BookedPrice, calcDeposit(BookedPrice))

BookedInit ==
  /\ backend \in Backends
  /\ packages = <<[id |-> 1, price |-> BookedPrice]>>
  /\ projects = <<BookedProject(backend)>>
  /\ payments = <<>>
  /\ serial = [packages |-> 2, projects |-> 2, payments |-> 1]
  /\ procs = [p \in Procs |-> [IdleProc EXCEPT !.limit = MaxServed]]
  /\ calc = NoCalc

BookedPaymentReqs ==
  {[NoReq EXCEPT !.project_id = 1, !.amount = Money(a), !.hasAmount = TRUE,
                 !.method = "Cash"] : a \in {2500, 5000}}

\* The same, and a posting of half a cent (amount: 0.005).
DecimalPaymentReqs ==
  BookedPaymentReqs \cup
  {[NoReq EXCEPT !.project_id = 1, !.amount = 1, !.hasAmount = TRUE, !.method = "Cash"]}

BookedDeleteReqs == {[NoReq EXCEPT !.id = i] : i \in 1..MaxPayments}

PaymentNext(p, PayR) ==
  \/ \E req \in PayR : SqPostPayment(p, req)
  \/ \E req \in BookedDeleteReqs : SqDeletePayment(p, req)
  \/ \E req \in PayR : ShStartPostPayment(p, req)
  \/ ShPostNextId(p)
  \/ ShPostAppend(p)
  \/ ShPostGetProject(p)
  \/ ShUpdateFind(p)
  \/ ShUpdateExisting(p)
  \/ ShUpdateWrite(p)
  \/ \E req \in BookedDeleteReqs : ShStartDeletePayment(p, req)
  \/ ShDeleteGetPayment(p)
  \/ ShDeleteFind(p)
  \/ ShDeleteGetProject(p)
  \/ ShDeleteSheetMeta(p)
  \/ ShDeleteRow(p)
  \/ \E req \in PayR : PgStartPostPayment(p, req)
  \/ PgPostConnect(p)
  \/ PgPostBegin(p)
  \/ PgPostInsert(p)
  \/ PgPostUpdate(p)
  \/ PgPostCommit(p)
  \/ \E req \in BookedDeleteReqs : PgStartDeletePayment(p, req)
  \/ PgDeleteConnect(p)
  \/ PgDeleteBegin(p)
  \/ PgDeleteSelect(p)
  \/ PgDeleteNotFound(p)
  \/ PgDeleteDelete(p)
  \/ PgDeleteUpdate(p)
  \/ PgDeleteCommit(p)
  \/ Respond(p)

FaultIdReqs == {[NoReq EXCEPT !.id = 1]}

FaultPackageReqs ==
  {[NoReq EXCEPT !.id = 1, !.name = "Wedding", !.hasName = TRUE,
                 !.price = 30000, !.hasPrice = TRUE]}

\* One request at a time, with persistence calls that may fail: the payment
\* handlers of the three servers and the other handlers of the Sheets
\* server, each of whose routes catches a rejected call.
FaultNext ==
  \/ PaymentNext(1, BookedPaymentReqs)
  \/ \E req \in SheetsProjectReqs : ShStartCreateProject(1, req)
  \/ ShCreateProjectNextId(1)
  \/ ShCreateProjectAppend(1)
  \/ \E req \in FaultIdReqs : ShStartDeleteProject(1, req)
  \/ ShDeleteProjectFind(1)
  \/ ShDeleteProjectSheetMeta(1)
  \/ ShDeleteProjectRow(1)
  \/ \E req \in FaultPackageReqs : ShStartCreatePackage(1, req)
  \/ ShCreatePackageNextId(1)
  \/ ShCreatePackageAppend(1)
  \/ \E req \in FaultPackageReqs : ShStartPutPackage(1, req)
  \/ ShPutPackageFind(1)
  \/ ShPutPackageExisting(1)
  \/ ShPutPackageWrite(1)
  \/ \E req \in FaultIdReqs : ShStartDeletePackage(1, req)
  \/ ShDeletePackageFind(1)
  \/ ShDeletePackageSheetMeta(1)
  \/ ShDeletePackageRow(1)
  \/ ShFail(1)
  \/ PgFail(1)
  \/ PgRollback(1)

SpecFault == BookedInit /\ [][FaultNext]_vars

\* Two workers.
ConcNext == \E p \in Procs : PaymentNext(p, BookedPaymentReqs)

SpecConc == BookedInit /\ [][ConcNext]_vars

\* One request at a time, with amounts finer than a cent.
DecimalNext == PaymentNext(1, DecimalPaymentReqs)

SpecDecimal == BookedInit /\ [][DecimalNext]_vars

\* Managing bookings and packages: one request at a time, MaxRequests of
\* them, on a store that holds one package and either no booking yet or the
\* booking made from it.
StatusInputs == {"Confirmed", "Completed", "Bogus"}

ManagedIds == 1..(MaxProjects + 1)

ManagedInit ==
  /\ backend \in Backends \cup {"pg1"}
  /\ packages = <<[id |-> 1, price |-> BookedPrice]>>
  /\ \/ projects = <<>> /\ serial = [packages |-> 2, projects |-> 1, payments |-> 1]
     \/ /\ projects = <<BookedProject(backend)>>
        /\ serial = [packages |-> 2, projects |-> 2, payments |-> 1]
  /\ payments = <<>>
  /\ procs = [p \in Procs |-> [IdleProc EXCEPT !.limit = MaxRequests]]
  /\ calc = NoCalc

ManagedProjectReqs ==
  {[NoReq EXCEPT !.client_id = 1, !.package_id = 1]} \cup
  {[NoReq EXCEPT !.client_id = 1, !.package_id = 1, !.price = pr, !.hasPrice = TRUE] :
     pr \in {-100, BookedPrice}}

\* Package bodies: name and price; the price alone; the name alone; an
\* empty name; price: null.
ManagedPackageReqs ==
  {[NoReq EXCEPT !.id = i, !.name = "Wedding", !.hasName = TRUE,
                 !.price = pr, !.hasPrice = TRUE] :
     i \in ManagedIds, pr \in {-100, 30000}} \cup
  {[NoReq EXCEPT !.id = i, !.price = 30000, !.hasPrice = TRUE] : i \in ManagedIds} \cup
  {[NoReq EXCEPT !.id = i, !.name = "Wedding", !.hasName = TRUE] : i \in ManagedIds} \cup
  {[NoReq EXCEPT !.id = i, !.hasName = TRUE, !.price = 30000, !.hasPrice = TRUE] :
     i \in ManagedIds} \cup
  {[NoReq EXCEPT !.id = i, !.name = "Wedding", !.hasName = TRUE, !.nullPrice = TRUE] :
     i \in ManagedIds}

\* POST bodies: {} and one that gives the ledger columns, a status and
\* amount_paid.
LedgerProjectReqs ==
  {NoReq,
   [NoReq EXCEPT !.client_id = 1, !.package_id = 1, !.hasLedger = TRUE,
                 !.status = "Editing", !.price = BookedPrice, !.hasPrice = TRUE,
                 !.deposit_percent = calcDeposit(BookedPrice).percent,
                 !.deposit_amount = calcDeposit(BookedPrice).depositAmount,
                 !.balance_amount = calcDeposit(BookedPrice).balanceAmount,
                 !.amount_paid = 7000]}

StatusReqs ==
  {[NoReq EXCEPT !.id = i, !.status = st] : i \in ManagedIds, st \in StatusInputs}

\* PUT bodies: {} and one that gives the ledger columns, amount_paid changed,
\* with and without the booking's package_id and its revision counts.
PutProjectReqs ==
  {[NoReq EXCEPT !.id = i] : i \in ManagedIds} \cup
  {[NoReq EXCEPT !.id = i, !.package_id = k, !.hasLedger = TRUE, !.status = "Editing",
                 !.price = BookedPrice, !.hasPrice = TRUE,
                 !.deposit_percent = calcDeposit(BookedPrice).percent,
                 !.deposit_amount = calcDeposit(BookedPrice).depositAmount,
                 !.balance_amount = calcDeposit(BookedPrice).balanceAmount,
                 !.amount_paid = 7000,
                 !.revision_limit = rv,
                 !.revisions_used = IF rv = NULL THEN NULL ELSE 0] :
     i \in ManagedIds, k \in {0, 1}, rv \in {NULL, 2}}

IdReqs == {[NoReq EXCEPT !.id = i] : i \in ManagedIds}

ManagedPaymentReqs ==
  {[NoReq EXCEPT !.project_id = 1, !.amount = Money(5000), !.hasAmount = TRUE,
                 !.method = "Cash"]}

ManagedNext ==
  \/ \E req \in ManagedProjectReqs : SqCreateProject(1, req)
  \/ \E req \in StatusReqs : SqPatchStatus(1, req)
  \/ \E req \in PutProjectReqs : SqPutProject(1, req)
  \/ \E req \in IdReqs : SqDeleteProject(1, req)
  \/ \E req \in ManagedPackageReqs : SqPutPackage(1, req)
  \/ \E req \in IdReqs : SqDeletePackage(1, req)
  \/ \E req \in IdReqs : SqRecordRevision(1, req)
  \/ \E req \in IdReqs : SqResetRevisions(1, req)
  \/ \E req \in ManagedPaymentReqs : SqPostPayment(1, req)
  \/ SqDashboard(1)
  \/ \E req \in SheetsProjectReqs \cup LedgerProjectReqs : ShStartCreateProject(1, req)
  \/ ShCreateProjectNextId(1)
  \/ ShCreateProjectAppend(1)
  \/ \E req \in ManagedPackageReqs : ShStartCreatePackage(1, req)
  \/ ShCreatePackageNextId(1)
  \/ ShCreatePackageAppend(1)
  \/ \E req \in PutProjectReqs : ShStartPutProject(1, req)
  \/ ShUpdateFind(1)
  \/ ShUpdateExisting(1)
  \/ ShUpdateWrite(1)
  \/ \E req \in IdReqs : ShStartDeleteProject(1, req)
  \/ ShDeleteProjectFind(1)
  \/ ShDeleteProjectSheetMeta(1)
  \/ ShDeleteProjectRow(1)
  \/ \E req \in ManagedPackageReqs : ShStartPutPackage(1, req)
  \/ ShPutPackageFind(1)
  \/ ShPutPackageExisting(1)
  \/ ShPutPackageWrite(1)
  \/ \E req \in IdReqs : ShStartDeletePackage(1, req)
  \/ ShDeletePackageFind(1)
  \/ ShDeletePackageSheetMeta(1)
  \/ ShDeletePackageRow(1)
  \/ \E req \in ManagedPaymentReqs : ShStartPostPayment(1, req)
  \/ ShPostNextId(1)
  \/ ShPostAppend(1)
  \/ ShPostGetProject(1)
  \/ \E req \in ManagedProjectReqs : PgCreateProject(1, req)
  \/ PgCreateProjectSelect(1)
  \/ PgCreateProjectInsert(1)
  \/ \E req \in LedgerProjectReqs : PgInsertProject(1, req)
  \/ \E req \in ManagedPackageReqs : PgFirstCreatePackage(1, req)
  \/ \E req \in IdReqs : PgFirstDeletePackage(1, req)
  \/ ExpressCatches(1)
  \/ \E req \in StatusReqs : PgPatchStatus(1, req)
  \/ \E req \in PutProjectReqs : PgPutProject(1, req)
  \/ \E req \in IdReqs : PgDeleteProject(1, req)
  \/ \E req \in ManagedPackageReqs : PgPutPackage(1, req)
  \/ \E req \in IdReqs : PgDeletePackage(1, req)
  \/ PgDashboard(1)
  \/ PgDashboardFails(1)
  \/ \E req \in ManagedPaymentReqs : PgStartPostPayment(1, req)
  \/ PgPostConnect(1)
  \/ PgPostBegin(1)
  \/ PgPostInsert(1)
  \/ PgPostUpdate(1)
  \/ PgPostCommit(1)
  \/ PgRollback(1)
  \/ Respond(1)

SpecManaged == ManagedInit /\ [][ManagedNext]_vars

\* The Postgres handlers with persistence calls that may reject, the
\* connect and the ROLLBACK of the catch block included.  A handler that has
\* been entered keeps running: each awaited call resolves or rejects.
FailingInit == BookedInit /\ backend = "pg"

FailingSteps ==
  \/ PgPostConnect(1)
  \/ PgPostBegin(1)
  \/ PgPostInsert(1)
  \/ PgPostUpdate(1)
  \/ PgPostCommit(1)
  \/ PgDeleteConnect(1)
  \/ PgDeleteBegin(1)
  \/ PgDeleteSelect(1)
  \/ PgDeleteNotFound(1)
  \/ PgDeleteDelete(1)
  \/ PgDeleteUpdate(1)
  \/ PgDeleteCommit(1)
  \/ PgRollback(1)
  \/ PgFail(1)
  \/ PgConnectFails(1)
  \/ PgRollbackFails(1)
  \/ Respond(1)

FailingNext ==
  \/ \E req \in BookedPaymentReqs : PgStartPostPayment(1, req)
  \/ \E req \in BookedDeleteReqs : PgStartDeletePayment(1, req)
  \/ \E req \in StatusReqs : PgPatchStatus(1, req)
  \/ \E req \in StatusReqs : PgPatchStatusFails(1, req)
  \/ PgGetClients(1)
  \/ PgGetClientsFails(1)
  \/ ExpressCatches(1)
  \/ FailingSteps

SpecFailing == FailingInit /\ [][FailingNext]_vars /\ WF_vars(FailingSteps)

\* Two workers, one request each, in the variants whose handlers interleave,
\* on a store with two bookings and one payment of RacePaid for the first:
\* the payment is reversed while the booking is updated or deleted.
RacePaid == Money(5000)

RaceInit ==
  /\ backend \in {"pg", "sheets"}
  /\ packages = <<[id |-> 1, price |-> BookedPrice]>>
  /\ projects = <<[BookedProject(backend) EXCEPT
                     !.amount_paid = RacePaid, !.balance_amount = @ - RacePaid],
                   [BookedProject(backend) EXCEPT !.id = 2]>>
  /\ payments = <<[id |-> 1, project_id |-> 1, amount |-> RacePaid, method |-> "Cash"]>>
  /\ serial = [packages |-> 2, projects |-> 3, payments |-> 2]
  /\ procs = [p \in Procs |-> [IdleProc EXCEPT !.limit = 1]]
  /\ calc = NoCalc

RaceDeleteReqs == {[NoReq EXCEPT !.id = 1]}

RaceSteps(p) ==
  \/ \E req \in RaceDeleteReqs : ShStartDeletePayment(p, req)
  \/ ShDeleteGetPayment(p)
  \/ ShDeleteFind(p)
  \/ ShDeleteGetProject(p)
  \/ ShDeleteSheetMeta(p)
  \/ ShDeleteRow(p)
  \/ \E req \in PutProjectReqs : ShStartPutProject(p, req)
  \/ ShUpdateFind(p)
  \/ ShUpdateExisting(p)
  \/ ShUpdateWrite(p)
  \/ \E req \in IdReqs : ShStartDeleteProject(p, req)
  \/ ShDeleteProjectFind(p)
  \/ ShDeleteProjectSheetMeta(p)
  \/ ShDeleteProjectRow(p)
  \/ \E req \in RaceDeleteReqs : PgStartDeletePayment(p, req)
  \/ PgDeleteConnect(p)
  \/ PgDeleteBegin(p)
  \/ PgDeleteSelect(p)
  \/ PgDeleteNotFound(p)
  \/ PgDeleteDelete(p)
  \/ PgDeleteUpdate(p)
  \/ PgDeleteCommit(p)
  \/ PgRollback(p)
  \/ \E req \in RaceDeleteReqs : PgDeleteProject(p, req)

RaceNext == \E p \in Procs : RaceSteps(p)

SpecRace == RaceInit /\ [][RaceNext]_vars

\* Two workers, one request each, on the first server's routes: a booking
\* is made from the one package while the package is deleted or a status
\* is patched.
BookingInit ==
  /\ backend \in {"pg", "pg1"}
  /\ packages = <<[id |-> 1, price |-> BookedPrice]>>
  /\ projects = <<>>
  /\ payments = <<>>
  /\ serial = [packages |-> 2, projects |-> 1, payments |-> 1]
  /\ procs = [p \in Procs |-> [IdleProc EXCEPT !.limit = 1]]
  /\ calc = NoCalc

BookingSteps(p) ==
  \/ \E req \in ManagedProjectReqs : PgCreateProject(p, req)
  \/ PgCreateProjectSelect(p)
  \/ PgCreateProjectInsert(p)
  \/ \E req \in ManagedPackageReqs : PgFirstCreatePackage(p, req)
  \/ \E req \in IdReqs : PgFirstDeletePackage(p, req)
  \/ \E req \in StatusReqs : PgPatchStatus(p, req)
  \/ ExpressCatches(p)
  \/ Respond(p)

BookingNext == \E p \in Procs : BookingSteps(p)

SpecBooking == BookingInit /\ [][BookingNext]_vars

\* A booking request whose package was deleted between its SELECT and its
\* INSERT: nothing was stored and nothing has been sent.
BookingLeftUnanswered ==
  \E p \in Procs :
    /\ procs[p].op = "createProject" /\ procs[p].pc = "rejected"
    /\ projects = <<>> /\ packages = <<>>

(***************************************************************************)
(* Properties.                                                             *)
(***************************************************************************)
\* The request worker 1 has just answered, and the rows it was about.
Done(op) == procs[1].pc = "answered" /\ procs[1].op = op

ProjectBefore == RowById(procs[1].pre.projects, procs[1].req.project_id)

ProjectAfter == RowById(projects, procs[1].req.project_id)

PaymentBefore == RowById(procs[1].pre.payments, procs[1].req.id)

ParentBefore ==
  IF PaymentBefore = <<>> THEN <<>>
  ELSE RowById(procs[1].pre.projects, PaymentBefore[1].project_id)

ParentAfter ==
  IF PaymentBefore = <<>> THEN <<>>
  ELSE RowById(projects, PaymentBefore[1].project_id)

StoreUnchanged ==
  projects = procs[1].pre.projects /\ payments = procs[1].pre.payments

\* C1: after every posting or reversal that was answered, in each variant,
\* amount_paid + balance_amount == price holds for every booking.
LedgerSumsToPrice ==
  (Done("postPayment") \/ Done("deletePayment"))
    => \A i \in 1..Len(projects) :
         projects[i].amount_paid + projects[i].balance_amount = projects[i].price

\* C2: calcDeposit answers percent 0.5 for a price of at most 15000 and 0.25
\* for a price above it; 15000 is in the 50% tier and 15001 in the 25% tier.
DepositTiering ==
  calc.done =>
    /\ calc.price <= 15000 => calc.percent = 50
    /\ calc.price > 15000 => calc.percent = 25
    /\ calc.price = 15000 => calc.percent = 50
    /\ calc.price = 15001 => calc.percent = 25

\* C2 witness: the calculator has answered for the boundary price 15000.
DepositTieringWitness ==
  calc.done /\ calc.price = 15000 /\ calc.percent = 50

\* C3: for a whole price p >= 0, deposit_amount is p * percent rounded to
\* the nearest integer with a tie rounded up, balance_amount is p less the
\* deposit, 0 <= deposit_amount <= p; 0 gives 0 and 0, 15001 gives 3750 and
\* 11251.
DepositSplit ==
  calc.done =>
    /\ 200 * calc.depositAmount - 100 <= 2 * calc.price * calc.percent
    /\ 2 * calc.price * calc.percent < 200 * calc.depositAmount + 100
    /\ calc.balanceAmount = calc.price - calc.depositAmount
    /\ calc.depositAmount + calc.balanceAmount = calc.price
    /\ 0 <= calc.depositAmount /\ calc.depositAmount <= calc.price
    /\ calc.price = 0 => calc.depositAmount = 0 /\ calc.balanceAmount = 0
    /\ calc.price = 15001 => calc.depositAmount = 3750 /\ calc.balanceAmount = 11251

\* C3 witness: a tie.  Half of 14999 is 7499.5, and the deposit is 7500.
DepositSplitWitness ==
  /\ calc.done /\ calc.price = 14999
  /\ calc.depositAmount = 7500 /\ calc.balanceAmount = 7499

\* C4: a posting of A > 0 with a valid method against an existing project
\* adds exactly one payment, of that project, and in the same operation adds
\* A to the project's amount_paid and takes A from its balance_amount.
PostingMovesBothTotals ==
  LET req == procs[1].req
  IN  (/\ Done("postPayment")
       /\ req.hasAmount /\ req.amount > 0 /\ req.method \in validMethods
       /\ ProjectBefore # <<>>)
        => /\ Len(payments) = Len(procs[1].pre.payments) + 1
           /\ payments[Len(payments)].project_id = req.project_id
           /\ SubSeq(payments, 1, Len(procs[1].pre.payments)) = procs[1].pre.payments
           /\ ProjectAfter # <<>>
           /\ ProjectAfter[1].amount_paid = ProjectBefore[1].amount_paid + req.amount
           /\ ProjectAfter[1].balance_amount =
                ProjectBefore[1].balance_amount - req.amount

\* C5: reversing an existing payment of A takes A from the parent project's
\* amount_paid, adds A to its balance_amount and removes the payment.
ReversalMovesBothTotals ==
  (Done("deletePayment") /\ PaymentBefore # <<>> /\ ParentBefore # <<>>)
    => /\ RowById(payments, procs[1].req.id) = <<>>
       /\ Len(payments) = Len(procs[1].pre.payments) - 1
       /\ ParentAfter # <<>>
       /\ ParentAfter[1].amount_paid =
            ParentBefore[1].amount_paid - PaymentBefore[1].amount
       /\ ParentAfter[1].balance_amount =
            ParentBefore[1].balance_amount + PaymentBefore[1].amount

\* C6: a posting of A followed at once by the reversal of the payment it
\* recorded leaves the project's amount_paid and balance_amount as they were
\* before the posting, and the payments as they were.
ReversalRestores ==
  LET pr == procs[1]
  IN  (Done("deletePayment") /\ pr.prev # <<>> /\ pr.req.id = pr.prev[1].id)
        => /\ payments = pr.prev[1].pre.payments
           /\ \A i \in 1..Len(projects) :
                /\ projects[i].amount_paid = pr.prev[1].pre.projects[i].amount_paid
                /\ projects[i].balance_amount =
                     pr.prev[1].pre.projects[i].balance_amount

\* C7: two postings of A and B against the same project, the only requests
\* made, in the variants whose handlers interleave (Postgres, Sheets): once
\* both are answered amount_paid has grown by A + B and balance_amount has
\* shrunk by A + B.
NoLostUpdate ==
  (/\ backend # "sqlite"
   /\ \A p \in Procs : /\ procs[p].pc = "answered" /\ procs[p].op = "postPayment"
                       /\ procs[p].status = 201 /\ procs[p].served = 0)
    => /\ projects[1].amount_paid =
            BookedProject(backend).amount_paid
              + procs[1].req.amount + procs[2].req.amount
       /\ projects[1].balance_amount =
            BookedProject(backend).balance_amount
              - procs[1].req.amount - procs[2].req.amount

\* C8: a posting or reversal in which a persistence call failed (the handler
\* answered 500) leaves the store as it was before the request.
FailedPaymentLeavesNoTrace ==
  ((Done("postPayment") \/ Done("deletePayment")) /\ procs[1].status = 500)
    => StoreUnchanged

\* C9: a posting, valid otherwise, whose project_id names no project is
\* answered 404, records no payment and changes no project.
UnknownProjectIsNotFound ==
  LET req == procs[1].req
  IN  (/\ Done("postPayment")
       /\ req.project_id # 0 /\ req.hasAmount /\ req.amount > 0
       /\ req.method \in validMethods
       /\ ProjectBefore = <<>>)
        => procs[1].status = 404 /\ StoreUnchanged

\* C10: a posting whose amount is zero or negative is answered 400, records
\* no payment and changes no project's amount_paid or balance_amount.
NonPositiveAmountRejected ==
  LET req == procs[1].req
  IN  (Done("postPayment") /\ req.hasAmount /\ req.amount <= 0)
        => procs[1].status = 400 /\ StoreUnchanged

\* C11: a posting whose method is not one of Cash, Bank Transfer, Card, Other
\* is answered 400, records no payment and changes no project's totals.
UnknownMethodRejected ==
  LET req == procs[1].req
  IN  (Done("postPayment") /\ req.method \notin validMethods)
        => procs[1].status = 400 /\ StoreUnchanged

\* C12 (as amended): reversing a payment id that is not stored, one already
\* reversed included, leaves every project's amount_paid and balance_amount
\* and the payments unchanged; the Postgres and Sheets variants answer 404,
\* the SQLite variant answers success without doing anything.
UnknownReversalIsNoOp ==
  (Done("deletePayment") /\ PaymentBefore = <<>>)
    => /\ StoreUnchanged
       /\ procs[1].status = IF backend = "sqlite" THEN 200 ELSE 404

\* An already reversed payment is reversed again.
UnknownReversalIsNoOpWitness ==
  /\ Done("deletePayment") /\ PaymentBefore = <<>>
  /\ procs[1].req.id < serial.payments
  /\ projects # <<>> /\ StoreUnchanged

\* C12 as stated: every such reversal reports NotFound.
UnknownReversalIsNotFound ==
  (Done("deletePayment") /\ PaymentBefore = <<>>)
    => procs[1].status = 404 /\ StoreUnchanged

\* The booking a status, update, delete or revision request names, before and
\* after the request.
BookingBefore == RowById(procs[1].pre.projects, procs[1].req.id)

BookingAfter == RowById(projects, procs[1].req.id)

\* C13: a status change whose target is not one of the ten valid statuses is
\* answered 400 and changes nothing, and the status of every stored booking
\* is one of the ten.
InvalidStatusRejected ==
  /\ (Done("patchStatus") /\ procs[1].req.status \notin validStatuses)
       => procs[1].status = 400 /\ StoreUnchanged
  /\ \A i \in 1..Len(projects) : projects[i].status \in validStatuses

terminalStatuses == {"Completed", "Cancelled"}

\* C14: once a booking's status is Completed or Cancelled, no step changes it.
TerminalStatusIsFinal ==
  [][\A id \in ManagedIds :
       (/\ RowById(projects, id) # <<>>
        /\ RowById(projects, id)[1].status \in terminalStatuses
        /\ RowById(projects', id) # <<>>)
         => RowById(projects', id)[1].status = RowById(projects, id)[1].status]_vars

\* C15: a booking creation that supplies a negative price is answered with a
\* validation error and stores nothing, and no stored booking has a negative
\* deposit_amount or balance_amount.
NegativePriceRejected ==
  /\ (Done("createProject") /\ procs[1].req.hasPrice /\ procs[1].req.price < 0)
       => procs[1].status = 400 /\ StoreUnchanged
  /\ \A i \in 1..Len(projects) :
       projects[i].deposit_amount >= 0 /\ projects[i].balance_amount >= 0

\* The columns the deposit computation wrote when the booking was created.
DepositColumns(row) ==
  <<row.price, row.deposit_percent, row.deposit_amount, row.balance_amount>>

\* C16: a package update (its price included) or a package deletion leaves
\* every booking stored, with the price, deposit_percent, deposit_amount and
\* balance_amount it had before.
DepositComputedOnce ==
  (Done("putPackage") \/ Done("deletePackage"))
    => \A i \in 1..Len(procs[1].pre.projects) :
         LET before == procs[1].pre.projects[i]
             after == RowById(projects, before.id)
         IN  after # <<>> /\ DepositColumns(after[1]) = DepositColumns(before)

\* The package of a stored booking has been repriced or deleted.
DepositComputedOnceWitness ==
  /\ Done("putPackage") \/ Done("deletePackage")
  /\ procs[1].status = 200
  /\ \E i \in 1..Len(procs[1].pre.projects) :
       /\ procs[1].pre.projects[i].package_id = procs[1].req.id
       /\ procs[1].pre.projects[i].price = Money(BookedPrice)
  /\ \/ RowById(packages, procs[1].req.id) = <<>>
     \/ RowById(packages, procs[1].req.id)[1].price # BookedPrice

\* C17: a booking update, a status change, a recorded revision and a
\* revision reset leave the amount_paid and balance_amount of every booking
\* as they were.
TotalsMovedByPaymentsOnly ==
  (Done("putProject") \/ Done("patchStatus") \/ Done("recordRevision")
     \/ Done("resetRevisions"))
    => \A i \in 1..Len(procs[1].pre.projects) :
         LET before == procs[1].pre.projects[i]
             after == RowById(projects, before.id)
         IN  /\ after # <<>>
             /\ after[1].amount_paid = before.amount_paid
             /\ after[1].balance_amount = before.balance_amount

\* C18: once a booking has been deleted no payment with its id is stored, and
\* every stored payment is a payment of a stored booking.
PaymentsDeletedWithBooking ==
  /\ (Done("deleteProject") /\ procs[1].status = 200)
       => \A i \in 1..Len(payments) : payments[i].project_id # procs[1].req.id
  /\ \A i \in 1..Len(payments) : RowById(projects, payments[i].project_id) # <<>>

\* C19: recording a revision of a stored booking raises revisions_used by
\* exactly 1 and answers the new count together with a flag that is true
\* exactly when the new count is above revision_limit: with limit 2 the
\* first two calls answer false and the third answers true with 3 used.
RevisionCounted ==
  (Done("recordRevision") /\ procs[1].status = 200)
    => /\ BookingBefore # <<>> /\ BookingAfter # <<>>
       /\ BookingAfter[1].revisions_used = BookingBefore[1].revisions_used + 1
       /\ BookingAfter[1] = [BookingBefore[1] EXCEPT
                               !.revisions_used = BookingAfter[1].revisions_used]
       /\ procs[1].revisionsUsed = BookingAfter[1].revisions_used
       /\ procs[1].extraRevision
            <=> (BookingAfter[1].revisions_used > BookingAfter[1].revision_limit)
       /\ BookingBefore[1].revision_limit = 2
            => (procs[1].extraRevision <=> BookingBefore[1].revisions_used >= 2)

\* The third revision of a booking with two included.
RevisionCountedWitness ==
  /\ Done("recordRevision") /\ procs[1].status = 200
  /\ BookingBefore # <<>> /\ BookingBefore[1].revision_limit = 2
  /\ BookingBefore[1].revisions_used = 2
  /\ BookingAfter[1].revisions_used = 3 /\ procs[1].extraRevision

\* C20: recording a revision and resetting the revisions of a booking that
\* is not stored are both answered 404 and change nothing.
RevisionOfUnknownBookingIsNotFound ==
  ((Done("recordRevision") \/ Done("resetRevisions")) /\ BookingBefore = <<>>)
    => procs[1].status = 404 /\ StoreUnchanged

\* C21: the dashboard's pending total is the sum of balance_amount -
\* amount_paid over the bookings whose status is neither Completed nor
\* Cancelled, 0 when there are none.
DashboardPending ==
  Done("dashboard")
    => procs[1].pendingPayments = SumPending(projects, terminalStatuses)

\* C22: every request is answered, and a request one of whose persistence
\* calls failed is answered 500 without internal error detail.
EveryRequestAnswered ==
  /\ []((procs[1].pc = "answered" /\ procs[1].failed)
          => (procs[1].status = 500 /\ ~procs[1].detail))
  /\ (procs[1].pc # "idle") ~> (procs[1].pc = "answered")

\* The amounts of the stored payments of one project, summed.
RECURSIVE PaidFor(_, _)
PaidFor(rows, id) ==
  IF rows = <<>> THEN 0
  ELSE (IF Head(rows).project_id = id THEN Head(rows).amount ELSE 0)
       + PaidFor(Tail(rows), id)

\* C23: in the SQLite server the amount_paid of every stored project is the
\* sum of the amounts of the stored payments that carry its id.
PaidIsSumOfPayments ==
  backend = "sqlite"
    => \A i \in 1..Len(projects) :
         projects[i].amount_paid = PaidFor(payments, projects[i].id)

\* C24: two concurrent reversals of the same stored payment of amount A
\* (Postgres, Sheets): once both are answered the parent project's
\* amount_paid is A lower and its balance_amount A higher than before.
ReversedAtMostOnce ==
  (\A p \in Procs : procs[p].pc = "answered" /\ procs[p].op = "deletePayment")
    => /\ RowById(projects, 1) # <<>>
       /\ RowById(projects, 1)[1].amount_paid = 0
       /\ RowById(projects, 1)[1].balance_amount = BookedProject(backend).balance_amount

\* C29: in the Sheets backend the row of a project changes or disappears
\* only in a write of updateProject for that id or a deletion of that id, and
\* no two rows of the projects sheet carry the same id.
UpdateWritesOwnRowOnly ==
  [][backend = "sheets"
       => /\ \A k \in ManagedIds :
               RowById(projects', k) # RowById(projects, k)
                 => \E p \in Procs :
                      \/ procs[p].pc = "up_write" /\ procs[p].updId = k
                      \/ procs[p].pc = "dj_deleterow" /\ procs[p].req.id = k
          /\ \A i, j \in 1..Len(projects') :
               projects'[i].id = projects'[j].id => i = j]_vars

\* C27: in the Sheets backend no two rows of a sheet carry the same id,
\* whatever the interleaving of two concurrent creations.
SheetIdsUnique ==
  backend = "sheets"
    => /\ \A i, j \in 1..Len(payments) : payments[i].id = payments[j].id => i = j
       /\ \A i, j \in 1..Len(projects) : projects[i].id = projects[j].id => i = j

\* C25: in the Postgres and Sheets backends, with one request at a time,
\* amount_paid + balance_amount of the booking is after every posting and
\* reversal what it was when the booking was created.
PaidPlusBalanceConstant ==
  backend \in {"pg", "sheets"}
    => \A i \in 1..Len(projects) :
         projects[i].amount_paid + projects[i].balance_amount
           = BookedProject(backend).amount_paid + BookedProject(backend).balance_amount

\* C26: every stored booking with price P >= 0 has 0 <= amount_paid <= P and
\* balance_amount >= 0.
NoOverpayment ==
  \A i \in 1..Len(projects) :
    projects[i].price >= 0
      => /\ 0 <= projects[i].amount_paid
         /\ projects[i].amount_paid <= projects[i].price
         /\ projects[i].balance_amount >= 0

\* C28: in the Sheets backend the id given to a new project was not the id
\* of an earlier project (the ids below serial.projects were given out
\* before the first request), and no stored payment carries it.
IdsNeverReused ==
  (backend = "sheets" /\ Done("createProject") /\ procs[1].status = 201)
    => /\ procs[1].newId >= serial.projects
       /\ \A i \in 1..Len(payments) : payments[i].project_id # procs[1].newId

\* C30: in the transactional Postgres payment handlers, once the handler has
\* ended (answered, or rejected after its finally block), a connection it
\* acquired has been released exactly once, a BEGIN that was run has been
\* followed by exactly one COMMIT or ROLLBACK that went through, and no
\* transaction was open at the release.
ConnectionReleasedOnce ==
  (procs[1].pc \in {"answered", "rejected"} /\ procs[1].acquired > 0)
    => /\ procs[1].released = procs[1].acquired
       /\ procs[1].released = 1
       /\ ~procs[1].conn
       /\ procs[1].begun <= 1
       /\ procs[1].begun = 1 => procs[1].ended = 1
       /\ ~procs[1].openAtRelease

====
